---------------------------- MODULE Spec2Model ----------------------------
(***************************************************************************)
(* Model of the Wisdom questionnaire scorer (wisdom_questionnaire.py) and  *)
(* of the reliability estimator (wisdom_analysis.py).                      *)
(*                                                                         *)
(* Floating point values are modelled as exact rationals extended with     *)
(* NaN, +inf and -inf, following the IEEE rules numpy applies (division by *)
(* zero yields an infinity or NaN, it does not raise).  Rounding is not    *)
(* modelled.                                                               *)
(***************************************************************************)
EXTENDS Integers, Sequences, FiniteSets, TLC

VARIABLES
    responses,   \* WisdomQuestionnaire.responses: item number -> numeric_response
    scores,      \* outcome of calculate_scores
    spc,         \* position of the scorer: "idle" | "ready" | "done"
    matrix,      \* the DataFrame handed to cronbach_alpha: [k, rows]
    alpha_out,   \* outcome of cronbach_alpha
    apc,         \* position of the estimator call: "idle" | "ready" | "done"
    alpha_double, \* the outcome as a float64, where the call is followed in float64
    csv_header,  \* the item columns of the header of the response file: i for Q<i>_numeric
    csv_rows,    \* the Q<i>_numeric fields of the data rows of the response file
    df_columns,  \* WisdomAnalyzer.df.columns: i for Q<i>_numeric, 0 for 'responses'
    df,          \* the rows of WisdomAnalyzer.df, each a function of its columns
    results,     \* WisdomAnalyzer.results['reliability']
    rpc,         \* position of the analyzer: "idle" | "collect" | "loaded" | "done"
    api_csv,     \* wisdom_survey_responses.csv of the API: [header, rows]
    json_files,  \* survey_responses/wisdom_survey_<participant_id>.json, by participant_id
    api_log,     \* the status of every answer submit_survey has given, in order
    http_response, \* the body of the latest answer of the API
    cli_csv,     \* wisdom_survey_results.csv of the questionnaire: [exists, header, rows]
    cli_log,     \* the value every run_survey has returned, in order
    survey,      \* a run of run_survey followed prompt by prompt: [pc, i, responses, input]
    api_file,    \* wisdom_survey_responses.csv line by line, every field kept: [exists, lines]
    cli_file,    \* wisdom_survey_results.csv line by line, every field kept: [exists, lines]
    analysis     \* a run of run_complete_analysis followed call by call

vars == <<responses, scores, spc, matrix, alpha_out, apc, alpha_double,
          csv_header, csv_rows, df_columns, df, results, rpc,
          api_csv, json_files, api_log, http_response, cli_csv, cli_log,
          survey, api_file, cli_file, analysis>>

scorerVars   == <<responses, scores, spc>>
alphaVars    == <<matrix, alpha_out, apc, alpha_double>>
analyzerVars == <<csv_header, csv_rows, df_columns, df, results, rpc>>
storeVars    == <<api_csv, json_files, api_log, http_response, cli_csv, cli_log>>
flowVars     == <<survey, api_file, cli_file, analysis>>

-----------------------------------------------------------------------------
(* Bounds of the model *)

MaxRows == 3      \* respondent rows of a matrix handed to cronbach_alpha
MaxCols == 2      \* item columns of a matrix handed to cronbach_alpha
MaxResp == 3      \* respondent rows of the analyzer's item table
MaxDeviations == 1 \* items (other than Q2) answered differently from the rest
PermRows == 2     \* respondent rows of a matrix whose reorderings are compared
PermCols == 2     \* item columns of a matrix whose reorderings are compared
MaxSubmit == 3    \* submit_survey requests and run_survey runs of a behaviour
MaxItems == 20    \* item columns of a matrix of repeated items
CorrRows == 3     \* respondent rows of a matrix of repeated items

\* item values the matrices of the estimator are drawn from
Vals == {1, 3, 5}

-----------------------------------------------------------------------------
(* Sequences and sums *)

RECURSIVE SumSeq(_)
SumSeq(s) == IF s = <<>> THEN 0 ELSE s[1] + SumSeq(Tail(s))

RECURSIVE SumSet(_, _)
SumSet(S, f) ==
    IF S = {} THEN 0
    ELSE LET x == CHOOSE y \in S : TRUE IN f[x] + SumSet(S \ {x}, f)

-----------------------------------------------------------------------------
(* Floating point values: a finite rational n/d in lowest terms with d > 0,*)
(* or one of NaN, +inf, -inf.                                              *)

Abs(x) == IF x < 0 THEN -x ELSE x

RECURSIVE GCD(_, _)
GCD(a, b) == IF b = 0 THEN a ELSE GCD(b, a % b)

NaN  == [t |-> "nan",  n |-> 0, d |-> 1]
PInf == [t |-> "inf",  n |-> 1, d |-> 1]
NInf == [t |-> "inf",  n |-> -1, d |-> 1]

Fin(n, d) ==
    LET g == GCD(Abs(n), Abs(d))
        s == IF d < 0 THEN -1 ELSE 1
    IN  [t |-> "fin", n |-> (s * n) \div g, d |-> (s * d) \div g]

Zero == Fin(0, 1)
One  == Fin(1, 1)

IsNaN(a) == a.t = "nan"
IsInf(a) == a.t = "inf"
IsFin(a) == a.t = "fin"
Sign(a)  == IF a.n > 0 THEN 1 ELSE IF a.n < 0 THEN -1 ELSE 0

FNeg(a) == IF IsNaN(a) THEN NaN ELSE [a EXCEPT !.n = -a.n]

FAdd(a, b) ==
    IF IsNaN(a) \/ IsNaN(b) THEN NaN
    ELSE IF IsInf(a) /\ IsInf(b) THEN (IF a.n = b.n THEN a ELSE NaN)
    ELSE IF IsInf(a) THEN a
    ELSE IF IsInf(b) THEN b
    ELSE Fin(a.n * b.d + b.n * a.d, a.d * b.d)

FSub(a, b) == FAdd(a, FNeg(b))

FMul(a, b) ==
    IF IsNaN(a) \/ IsNaN(b) THEN NaN
    ELSE IF IsInf(a) \/ IsInf(b)
         THEN (IF Sign(a) * Sign(b) = 0 THEN NaN
               ELSE IF Sign(a) * Sign(b) > 0 THEN PInf ELSE NInf)
    ELSE Fin(a.n * b.n, a.d * b.d)

\* numpy float64 division: x/0 is an infinity of x's sign, 0/0 is NaN
FDiv(a, b) ==
    IF IsNaN(a) \/ IsNaN(b) THEN NaN
    ELSE IF IsInf(a) /\ IsInf(b) THEN NaN
    ELSE IF IsInf(a) THEN (IF Sign(a) * Sign(b) < 0 THEN NInf ELSE PInf)
    ELSE IF IsInf(b) THEN Zero
    ELSE IF b.n = 0
         THEN (IF a.n = 0 THEN NaN ELSE IF a.n > 0 THEN PInf ELSE NInf)
    ELSE Fin(a.n * b.d, a.d * b.n)

\* a < 0 in Python's float ordering (false for NaN, true for -inf)
FNegative(a) == ~IsNaN(a) /\ a.n < 0

-----------------------------------------------------------------------------
(* pandas reductions used by cronbach_alpha *)

\* Series.var(ddof): NaN when count <= ddof, else the sum of squared
\* deviations from the mean divided by count - ddof
SeriesVar(xs, ddof) ==
    LET count == Len(xs)
        s     == SumSeq(xs)
        sqr   == SumSeq([i \in 1..count |-> (count * xs[i] - s) * (count * xs[i] - s)])
    IN  IF count <= ddof THEN NaN
        ELSE Fin(sqr, count * count * (count - ddof))

\* Series.sum() with skipna: NaN entries are skipped, the empty sum is 0
RECURSIVE NanSum(_)
NanSum(fs) ==
    IF fs = <<>> THEN Zero
    ELSE IF IsNaN(fs[1]) THEN NanSum(Tail(fs))
    ELSE FAdd(fs[1], NanSum(Tail(fs)))

Column(m, j) == [i \in 1..Len(m.rows) |-> m.rows[i][j]]

\* df.sum(axis=1) with the last item column left out of every row sum
RowSums_skip_last(m) ==
    [i \in 1..Len(m.rows) |-> SumSeq(SubSeq(m.rows[i], 1, m.k - 1))]

\* df.sum(axis=1)
RowSums(m) == [i \in 1..Len(m.rows) |-> SumSeq(m.rows[i])]

\* df.var(axis=0) with the population divisor n instead of n - 1
ItemVariances_population(m) == [j \in 1..m.k |-> SeriesVar(Column(m, j), 0)]

\* df.var(axis=0, ddof=1)
ItemVariances(m) == [j \in 1..m.k |-> SeriesVar(Column(m, j), 1)]

\* df.sum(axis=1).var(ddof=1)
TotalVariance(m) == SeriesVar(RowSums(m), 1)

\* the alpha expression with a negative value clamped to zero
AlphaExpr_clamped(k, ivsum, total_variance) ==
    IF k - 1 = 0 THEN [raised |-> TRUE, value |-> NaN]
    ELSE LET a == FMul(Fin(k, k - 1), FSub(One, FDiv(ivsum, total_variance)))
         IN  [raised |-> FALSE, value |-> IF FNegative(a) THEN Zero ELSE a]

\* the alpha expression of cronbach_alpha; k / (k - 1) is a division of
\* Python ints and raises ZeroDivisionError when k = 1
AlphaExpr(k, ivsum, total_variance) ==
    IF k - 1 = 0 THEN [raised |-> TRUE, value |-> NaN]
    ELSE [raised |-> FALSE,
          value  |-> FMul(Fin(k, k - 1), FSub(One, FDiv(ivsum, total_variance)))]

\* cronbach_alpha with an except branch that returns 0.0
cronbach_alpha_zero_on_error(m) ==
    LET alpha == AlphaExpr(m.k, NanSum(ItemVariances(m)), TotalVariance(m))
    IN  IF alpha.raised THEN Zero ELSE alpha.value

\* WisdomAnalyzer.cronbach_alpha: the bare except turns any exception into NaN
cronbach_alpha(m) ==
    LET k              == m.k
        item_variances == ItemVariances(m)
        total_variance == TotalVariance(m)
        alpha          == AlphaExpr(k, NanSum(item_variances), total_variance)
    IN  IF alpha.raised THEN NaN ELSE alpha.value


-----------------------------------------------------------------------------
(* IEEE 754 binary64 arithmetic, for the claims that are about the digits   *)
(* cronbach_alpha returns.  A natural number of any size is a sequence of   *)
(* limbs, least significant first, without leading zero limbs.              *)

LimbBits == 14
Limb     == 2^LimbBits

\* the significand of a double has 53 bits
Precision == 53

RECURSIVE BNorm(_)
BNorm(a) ==
    IF a = <<>> THEN <<>>
    ELSE IF a[Len(a)] = 0 THEN BNorm(SubSeq(a, 1, Len(a) - 1))
    ELSE a

RECURSIVE BFromInt(_)
BFromInt(n) == IF n = 0 THEN <<>> ELSE <<n % Limb>> \o BFromInt(n \div Limb)

BHead(a) == IF a = <<>> THEN 0 ELSE a[1]
BTail(a) == IF a = <<>> THEN <<>> ELSE Tail(a)

RECURSIVE BAddC(_, _, _)
BAddC(a, b, carry) ==
    IF a = <<>> /\ b = <<>> THEN (IF carry = 0 THEN <<>> ELSE <<carry>>)
    ELSE LET x == BHead(a) + BHead(b) + carry
         IN  <<x % Limb>> \o BAddC(BTail(a), BTail(b), x \div Limb)

BAdd(a, b) == BAddC(a, b, 0)

\* a - b - borrow for a >= b + borrow
RECURSIVE BSubB(_, _, _)
BSubB(a, b, borrow) ==
    IF a = <<>> THEN <<>>
    ELSE LET x == a[1] - BHead(b) - borrow
         IN  <<x % Limb>> \o BSubB(Tail(a), BTail(b), IF x < 0 THEN 1 ELSE 0)

BSub(a, b) == BNorm(BSubB(a, b, 0))

\* -1, 0 or 1 as a < b, a = b or a > b, comparing from limb i downwards
RECURSIVE BCmpFrom(_, _, _)
BCmpFrom(a, b, i) ==
    IF i = 0 THEN 0
    ELSE IF a[i] < b[i] THEN -1
    ELSE IF a[i] > b[i] THEN 1
    ELSE BCmpFrom(a, b, i - 1)

BCmp(a, b) ==
    IF Len(a) < Len(b) THEN -1
    ELSE IF Len(a) > Len(b) THEN 1
    ELSE BCmpFrom(a, b, Len(a))

\* a * s + carry for 0 <= s < Limb
RECURSIVE BMulSmall(_, _, _)
BMulSmall(a, s, carry) ==
    IF a = <<>> THEN (IF carry = 0 THEN <<>> ELSE <<carry>>)
    ELSE LET x == a[1] * s + carry
         IN  <<x % Limb>> \o BMulSmall(Tail(a), s, x \div Limb)

\* a * Limb^n
BShiftLimbs(a, n) == IF a = <<>> THEN <<>> ELSE [i \in 1..n |-> 0] \o a

RECURSIVE BMul(_, _)
BMul(a, b) ==
    IF a = <<>> \/ b = <<>> THEN <<>>
    ELSE BAdd(BNorm(BMulSmall(a, b[1], 0)), BShiftLimbs(BMul(a, Tail(b)), 1))

\* a * 2^k
BMul2k(a, k) ==
    BShiftLimbs(BNorm(BMulSmall(a, 2^(k % LimbBits), 0)), k \div LimbBits)

\* the number of bits of 0 < x < Limb
RECURSIVE BitLenSmall(_)
BitLenSmall(x) == IF x = 0 THEN 0 ELSE 1 + BitLenSmall(x \div 2)

BBitLen(a) ==
    IF a = <<>> THEN 0 ELSE LimbBits * (Len(a) - 1) + BitLenSmall(a[Len(a)])

\* bit i of a, bit 0 the least significant
BBit(a, i) ==
    IF i \div LimbBits + 1 > Len(a) THEN 0
    ELSE (a[i \div LimbBits + 1] \div 2^(i % LimbBits)) % 2

BIsOdd(a) == a # <<>> /\ a[1] % 2 = 1

\* quotient and remainder by 0 < s < 2^17 of the number the limbs i and
\* above of a make up
RECURSIVE BDivSmallFrom(_, _, _)
BDivSmallFrom(a, s, i) ==
    IF i > Len(a) THEN [quot |-> <<>>, rem |-> 0]
    ELSE LET prev == BDivSmallFrom(a, s, i + 1)
             x    == prev.rem * Limb + a[i]
         IN  [quot |-> <<x \div s>> \o prev.quot, rem |-> x % s]

BDivSmall(a, s) ==
    LET r == BDivSmallFrom(a, s, 1) IN [quot |-> BNorm(r.quot), rem |-> r.rem]

\* a \div 2^n
BShr(a, n) ==
    IF n \div LimbBits >= Len(a) THEN <<>>
    ELSE BDivSmall(SubSeq(a, n \div LimbBits + 1, Len(a)), 2^(n % LimbBits)).quot

\* the bits 0 .. n-1 of a are all zero
BLowZero(a, n) ==
    /\ \A i \in 1..(n \div LimbBits) : i > Len(a) \/ a[i] = 0
    /\ n \div LimbBits + 1 > Len(a) \/ a[n \div LimbBits + 1] % 2^(n % LimbBits) = 0

\* the number of zero bits below the lowest one bit of a # 0
BTrailingZeros(a) ==
    CHOOSE n \in 0..(LimbBits * Len(a)) : BLowZero(a, n) /\ BBit(a, n) = 1

\* a < 2^28 as a number
BToInt(a) == BHead(a) + Limb * BHead(BTail(a))

-----------------------------------------------------------------------------
(* A double is NaN, an infinity, or s * m * 2^e with s = 1 or -1 and m odd  *)
(* or zero, m < 2^53.  The exponent range and the sign of zero are not      *)
(* modelled: no value of the model comes near the first, and no operation   *)
(* of cronbach_alpha tells -0.0 from 0.0.                                   *)

DNaN  == [t |-> "nan", s |-> 1, m |-> <<>>, e |-> 0]
DInf(sgn) == [t |-> "inf", s |-> sgn, m |-> <<>>, e |-> 0]
DZero == [t |-> "fin", s |-> 1, m |-> <<>>, e |-> 0]
DOne  == [t |-> "fin", s |-> 1, m |-> <<1>>, e |-> 0]

DIsZero(a) == a.t = "fin" /\ a.m = <<>>

\* s * m * 2^e with the zero bits at the low end of m moved into e
DCanon(sgn, m, e) ==
    IF m = <<>> THEN DZero
    ELSE [t |-> "fin", s |-> sgn,
          m |-> BShr(m, BTrailingZeros(m)), e |-> e + BTrailingZeros(m)]

\* the double nearest to sgn * (p / q) * 2^e, a tie going to the even
\* significand, for a natural p and 0 < q < 2^17
DRound(sgn, p, q, e) ==
    IF p = <<>> THEN DZero
    ELSE LET L      == BBitLen(p) - BitLenSmall(q)
             sc     == IF Precision + 3 - L > 0 THEN Precision + 3 - L ELSE 0
             dm     == BDivSmall(BMul2k(p, sc), q)
             sh     == BBitLen(dm.quot) - Precision
             m0     == BShr(dm.quot, sh)
             half   == BBit(dm.quot, sh - 1) = 1
             sticky == dm.rem # 0 \/ ~BLowZero(dm.quot, sh - 1)
             up     == half /\ (sticky \/ BIsOdd(m0))
         IN  DCanon(sgn, IF up THEN BAddC(m0, <<>>, 1) ELSE m0, e + sh - sc)

\* a + b, correctly rounded
DAdd(a, b) ==
    IF a.t = "nan" \/ b.t = "nan" THEN DNaN
    ELSE IF a.t = "inf" /\ b.t = "inf" THEN (IF a.s = b.s THEN a ELSE DNaN)
    ELSE IF a.t = "inf" THEN a
    ELSE IF b.t = "inf" THEN b
    ELSE LET e  == IF a.e < b.e THEN a.e ELSE b.e
             x  == BMul2k(a.m, a.e - e)
             y  == BMul2k(b.m, b.e - e)
         IN  IF a.s = b.s THEN DRound(a.s, BAdd(x, y), 1, e)
             ELSE IF BCmp(x, y) >= 0 THEN DRound(a.s, BSub(x, y), 1, e)
             ELSE DRound(b.s, BSub(y, x), 1, e)

DNeg(a) == IF a.t = "nan" \/ DIsZero(a) THEN a ELSE [a EXCEPT !.s = -a.s]

\* a - b, correctly rounded
DSub(a, b) == DAdd(a, DNeg(b))

\* a * b, correctly rounded
DMul(a, b) ==
    IF a.t = "nan" \/ b.t = "nan" THEN DNaN
    ELSE IF a.t = "inf" \/ b.t = "inf"
         THEN (IF DIsZero(a) \/ DIsZero(b) THEN DNaN ELSE DInf(a.s * b.s))
    ELSE DRound(a.s * b.s, BMul(a.m, b.m), 1, a.e + b.e)

\* a / b as numpy divides float64 values, correctly rounded; a finite
\* nonzero b has a significand below 2^17
DDiv(a, b) ==
    IF a.t = "nan" \/ b.t = "nan" THEN DNaN
    ELSE IF a.t = "inf" THEN (IF b.t = "inf" THEN DNaN ELSE DInf(a.s * b.s))
    ELSE IF b.t = "inf" THEN DZero
    ELSE IF DIsZero(b) THEN (IF DIsZero(a) THEN DNaN ELSE DInf(a.s))
    ELSE DRound(a.s * b.s, a.m, BToInt(b.m), a.e - b.e)

\* the double of a value of the rational model
ToDouble(f) ==
    IF IsNaN(f) THEN DNaN
    ELSE IF IsInf(f) THEN DInf(Sign(f))
    ELSE DRound(IF f.n < 0 THEN -1 ELSE 1, BFromInt(Abs(f.n)), f.d, 0)

\* a // b of Python ints, b # 0, a and b of one sign: the floor of the quotient
IntTrueDiv_floor(a, b) ==
    DRound(IF (a < 0) = (b < 0) THEN 1 ELSE -1, BFromInt(Abs(a) \div Abs(b)), 1, 0)

\* a / b of Python ints, b # 0: the double nearest to the quotient
IntTrueDiv(a, b) ==
    DRound(IF (a < 0) = (b < 0) THEN 1 ELSE -1, BFromInt(Abs(a)), Abs(b), 0)

\* |a - 1| <= 2^-n
DNearOne(a, n) ==
    /\ a.t = "fin" /\ a.s = 1 /\ a.e <= 0
    /\ LET X == IF -a.e > n THEN -a.e ELSE n
           x == BMul2k(a.m, X + a.e)
           o == BMul2k(<<1>>, X)
           d == IF BCmp(x, o) >= 0 THEN BSub(x, o) ELSE BSub(o, x)
       IN  BCmp(d, BMul2k(<<1>>, X - n)) <= 0

\* f is a finite value with a power of two for its denominator
IsDyadic(f) == ~IsNaN(f) /\ ~IsInf(f) /\ \E i \in 0..30 : f.d = 2^i

\* Series.var(ddof=1) of xs is computed without a rounding error: it is NaN
\* for fewer than two values, or the mean, and with it every deviation and
\* the sum of their squares, and the variance are all values of float64
ExactSeries(xs) ==
    IF Len(xs) < 2 THEN TRUE
    ELSE /\ IsDyadic(Fin(SumSeq(xs), Len(xs)))
         /\ IsDyadic(SeriesVar(xs, 1))

\* every variance cronbach_alpha takes of m is computed without a rounding error
ExactVariances(m) ==
    /\ \A j \in 1..m.k : ExactSeries(Column(m, j))
    /\ ExactSeries(RowSums(m))

\* WisdomAnalyzer.cronbach_alpha in float64, for a table with ExactVariances
cronbach_alpha_double(m) ==
    LET k              == m.k
        item_variances == ToDouble(NanSum(ItemVariances(m)))
        total_variance == ToDouble(TotalVariance(m))
    IN  IF k - 1 = 0 THEN DNaN
        ELSE DMul(IntTrueDiv(k, k - 1),
                  DSub(DOne, DDiv(item_variances, total_variance)))

-----------------------------------------------------------------------------
(* Values of the variables a specification does not use *)

NoScores ==
    [status |-> "none", total_wisdom_score |-> 0, average_wisdom_score |-> Zero,
     creativity_score |-> 0, curiosity_score |-> 0, judgment_score |-> 0,
     social_wisdom_score |-> 0]

NoMatrix == [k |-> 0, rows |-> <<>>]

NoResults == [set |-> FALSE, reliability |-> <<>>]

ScorerIdle   == responses = <<>> /\ scores = NoScores /\ spc = "idle"
AlphaIdle    ==
    matrix = NoMatrix /\ alpha_out = NaN /\ apc = "idle" /\ alpha_double = DNaN
AnalyzerIdle ==
    /\ csv_header = <<>>
    /\ csv_rows = <<>>
    /\ df_columns = <<>>
    /\ df = <<>>
    /\ results = NoResults
    /\ rpc = "idle"

NoFile == [exists |-> FALSE, header |-> FALSE, rows |-> <<>>]

NoResponse == [kind |-> "none"]

NoSurvey ==
    [pc |-> "idle", i |-> 0, responses |-> <<>>, input |-> <<>>,
     participant_id |-> "", file_exists |-> FALSE]

NoLines == [exists |-> FALSE, lines |-> <<>>]

NoAnalysis == [pc |-> "idle"]

FlowIdle ==
    /\ survey = NoSurvey
    /\ api_file = NoLines
    /\ cli_file = NoLines
    /\ analysis = NoAnalysis

StoreIdle ==
    /\ api_csv = NoFile
    /\ json_files = <<>>
    /\ api_log = <<>>
    /\ http_response = NoResponse
    /\ cli_csv = NoFile
    /\ cli_log = <<>>

-----------------------------------------------------------------------------
(* The reliability estimator as a pure function: SpecAlpha *)

\* An empty table of k item columns, k from zero up to MaxCols
InitAlpha ==
    /\ matrix \in {[k |-> k, rows |-> <<>>] : k \in 0..MaxCols}
    /\ alpha_out = NaN
    /\ apc = "ready"
    /\ alpha_double = DNaN
    /\ ScorerIdle
    /\ AnalyzerIdle
    /\ StoreIdle
    /\ FlowIdle

\* one more respondent row of the table cronbach_alpha will be applied to
AddRow ==
    /\ apc = "ready"
    /\ Len(matrix.rows) < MaxRows
    /\ \E r \in [1..matrix.k -> Vals] :
           matrix' = [matrix EXCEPT !.rows = Append(@, r)]
    /\ UNCHANGED <<flowVars, alpha_out, apc, alpha_double, scorerVars, analyzerVars, storeVars>>

CronbachAlpha ==
    /\ apc = "ready"
    /\ alpha_out' = cronbach_alpha(matrix)
    /\ apc' = "done"
    /\ UNCHANGED <<flowVars, matrix, alpha_double, scorerVars, analyzerVars, storeVars>>

NextAlpha == AddRow \/ CronbachAlpha

SpecAlpha == InitAlpha /\ [][NextAlpha]_vars

-----------------------------------------------------------------------------
(* The estimator on small tables, every reordering of which is compared: *)
(* SpecPerm                                                              *)

InitPerm ==
    /\ matrix \in {[k |-> k, rows |-> <<>>] : k \in 0..PermCols}
    /\ alpha_out = NaN
    /\ apc = "ready"
    /\ alpha_double = DNaN
    /\ ScorerIdle
    /\ AnalyzerIdle
    /\ StoreIdle
    /\ FlowIdle

AddRespondent ==
    /\ apc = "ready"
    /\ Len(matrix.rows) < PermRows
    /\ \E r \in [1..matrix.k -> Vals] :
           matrix' = [matrix EXCEPT !.rows = Append(@, r)]
    /\ UNCHANGED <<flowVars, alpha_out, apc, alpha_double, scorerVars, analyzerVars, storeVars>>

NextPerm == AddRespondent \/ CronbachAlpha

SpecPerm == InitPerm /\ [][NextPerm]_vars

-----------------------------------------------------------------------------
(* Quantities the claims about cronbach_alpha are stated with.  For n rows *)
(* the sample variance of x is (n*Sum(x^2) - Sum(x)^2) / (n*(n-1)); the    *)
(* two operators below are its numerator, summed over the item columns and *)
(* taken of the row sums.                                                  *)

SqDev(xs) ==
    LET n == Len(xs)
        I == 1..n
    IN  n * SumSet(I, [i \in I |-> xs[i] * xs[i]]) - SumSet(I, xs) * SumSet(I, xs)

ItemVarNumer(m) ==
    LET J == 1..m.k IN SumSet(J, [j \in J |-> SqDev(Column(m, j))])

RowSumVarNumer(m) ==
    LET I == 1..Len(m.rows)
    IN  SqDev([i \in I |-> SumSet(1..m.k, m.rows[i])])

AntiCorrelated == [k |-> 2, rows |-> << <<5, 1>>, <<3, 3>>, <<1, 5>> >>]

\* C5: with k >= 2 items and a nonzero sample variance of the row sums,
\* cronbach_alpha returns exactly (k/(k-1)) * (1 - sum(item variances) /
\* variance(row sums)), the variances being sample variances (divisor n-1).
AlphaFormula ==
    (/\ apc = "done"
     /\ matrix.k >= 2
     /\ Len(matrix.rows) >= 2
     /\ RowSumVarNumer(matrix) # 0)
    => /\ IsFin(alpha_out)
       /\ alpha_out.n * (matrix.k - 1) * RowSumVarNumer(matrix)
            = alpha_out.d * matrix.k * (RowSumVarNumer(matrix) - ItemVarNumer(matrix))

AlphaFormulaWitness ==
    /\ apc = "done"
    /\ matrix.k >= 2
    /\ Len(matrix.rows) >= 3
    /\ RowSumVarNumer(matrix) # 0
    /\ IsFin(alpha_out)
    /\ alpha_out \notin {Zero, One}
    /\ ~FNegative(alpha_out)

\* C6: on degenerate input (row-sum variance zero, or fewer than 2
\* respondent rows) cronbach_alpha returns NaN.
DegenerateIsNaN ==
    (/\ apc = "done"
     /\ \/ Len(matrix.rows) < 2
        \/ RowSumVarNumer(matrix) = 0)
    => alpha_out = NaN

\* C8: alpha is never clamped to zero: the anti-correlated matrix
\* [[5,1],[3,3],[1,5]] gives a value below 0, and so does every matrix whose
\* sum of item variances exceeds the variance of its row sums.
NegativeAlphaNotClamped ==
    apc = "done" =>
        /\ matrix = AntiCorrelated => FNegative(alpha_out)
        /\ (Len(matrix.rows) >= 2 /\ ItemVarNumer(matrix) > RowSumVarNumer(matrix))
              => FNegative(alpha_out)

NegativeAlphaWitness ==
    /\ apc = "done"
    /\ matrix = AntiCorrelated
    /\ ItemVarNumer(matrix) > RowSumVarNumer(matrix)
    /\ FNegative(alpha_out)

\* the bijections of a finite set onto itself
Perms(S) == {f \in [S -> S] : \A a, b \in S : f[a] = f[b] => a = b}

\* the table with its rows reordered by p and its columns by q
Permuted(m, p, q) ==
    [k    |-> m.k,
     rows |-> [i \in 1..Len(m.rows) |-> [j \in 1..m.k |-> m.rows[p[i]][q[j]]]]]

SingleItemIsNaN ==
    (apc = "done" /\ matrix.k = 1) => alpha_out = NaN

SingleItemWitness ==
    /\ apc = "done"
    /\ matrix = [k |-> 1, rows |-> << <<3>>, <<3>>, <<3>> >>]
    /\ alpha_out = NaN

\* C19: on a table with zero item columns cronbach_alpha raises an error,
\* it returns no value at all, and on every other degenerate table (fewer
\* than 2 rows, or row sums of zero variance) it returns NaN.
ZeroItemsIsHardError ==
    apc = "done" =>
        /\ matrix.k = 0 => ~(IsNaN(alpha_out) \/ IsInf(alpha_out) \/ IsFin(alpha_out))
        /\ (matrix.k > 0 /\ (Len(matrix.rows) < 2 \/ RowSumVarNumer(matrix) = 0))
              => alpha_out = NaN

-----------------------------------------------------------------------------
(* The questionnaire and its scorer: Spec *)

\* len(self.questions)
NumQuestions == 20

\* the keys of self.response_options, as numbers
ResponseOptions == 1..5

\* The answers a respondent gives: any option for Q2 and for the other
\* items, at most MaxDeviations of which differ from the rest.
Admissible(r) ==
    \E b \in ResponseOptions :
        Cardinality({q \in DOMAIN r \ {2} : r[q] # b}) <= MaxDeviations

\* subscale lists with an item lost, and with an item of another subscale
curiosity_questions_short   == <<2, 4, 7, 9, 12, 14, 17>>
judgment_questions_overlap  == <<3, 8, 13, 19>>

\* item numbers are used for the keys 'Q1'..'Q20'
creativity_questions == <<1, 6, 11, 16>>
curiosity_questions  == <<2, 4, 7, 9, 12, 14, 17, 19>>
judgment_questions   == <<3, 8, 13, 18>>
social_questions     == <<5, 10, 15, 20>>

\* the loop body of the total without the reverse scoring of Q2
TotalTerm_no_reverse(q, resp) == resp[q]

\* the loop body of the total: Q2 is reverse scored
TotalTerm(q, resp) == IF q = 2 THEN 6 - resp[q] ELSE resp[q]

\* the curiosity term reversed about 5 instead of 6
CuriosityTerm_five_minus(q, resp) == IF q = 2 THEN 5 - resp[2] ELSE resp[q]

\* the generator expression of the curiosity sum
CuriosityTerm(q, resp) == IF q = 2 THEN 6 - resp[2] ELSE resp[q]

\* the generator expression of the other subscale sums
RawTerm(q, resp) == resp[q]

\* for q_num, response in self.responses.items(): total_score += ...
RECURSIVE TotalOver(_, _)
TotalOver(keys, resp) ==
    IF keys = {} THEN 0
    ELSE LET q == CHOOSE x \in keys : TRUE
         IN  TotalTerm(q, resp) + TotalOver(keys \ {q}, resp)

\* sum(<term> for q in <list>), term holding the generator's value per key
ListSum(list, term) == SumSeq([i \in 1..Len(list) |-> term[list[i]]])

RawTerms(resp)       == [q \in DOMAIN resp |-> RawTerm(q, resp)]
CuriosityTerms(resp) == [q \in DOMAIN resp |-> CuriosityTerm(q, resp)]

\* self.responses[q] raises KeyError for a key that is not there
HasAll(list, resp) == \A i \in 1..Len(list) : list[i] \in DOMAIN resp

KeyErrorRaised == [NoScores EXCEPT !.status = "KeyError"]

\* WisdomQuestionnaire.calculate_scores
calculate_scores(resp) ==
    LET total_score == TotalOver(DOMAIN resp, resp)
    IN  IF /\ HasAll(creativity_questions, resp)
           /\ HasAll(curiosity_questions, resp)
           /\ HasAll(judgment_questions, resp)
           /\ HasAll(social_questions, resp)
        THEN [status               |-> "ok",
              total_wisdom_score   |-> total_score,
              average_wisdom_score |-> Fin(total_score, NumQuestions),
              creativity_score     |-> ListSum(creativity_questions, RawTerms(resp)),
              curiosity_score      |-> ListSum(curiosity_questions, CuriosityTerms(resp)),
              judgment_score       |-> ListSum(judgment_questions, RawTerms(resp)),
              social_wisdom_score  |-> ListSum(social_questions, RawTerms(resp))]
        ELSE KeyErrorRaised

Init ==
    /\ responses = <<>>
    /\ scores = NoScores
    /\ spc = "ready"
    /\ AlphaIdle
    /\ AnalyzerIdle
    /\ StoreIdle
    /\ FlowIdle

\* one pass of the question loop of administer_questionnaire with a valid
\* input: the answer to the next question is recorded
Answer ==
    /\ spc = "ready"
    /\ Len(responses) < NumQuestions
    /\ \E v \in ResponseOptions :
          /\ Admissible(Append(responses, v))
          /\ responses' = Append(responses, v)
    /\ UNCHANGED <<flowVars, scores, spc, alphaVars, analyzerVars, storeVars>>

\* calculate_scores on the responses recorded so far
CalculateScores ==
    /\ spc = "ready"
    /\ scores' = calculate_scores(responses)
    /\ spc' = "done"
    /\ UNCHANGED <<flowVars, responses, alphaVars, analyzerVars, storeVars>>

Next == Answer \/ CalculateScores

Spec == Init /\ [][Next]_vars

-----------------------------------------------------------------------------
(* The scale definition the claims about the scorer are stated with *)

Items == 1..20
ReverseItems == {2}
ScaleMin == 1
ScaleMax == 5

Members ==
    [creativity |-> {1, 6, 11, 16},
     curiosity  |-> {2, 4, 7, 9, 12, 14, 17, 19},
     judgment   |-> {3, 8, 13, 18},
     social     |-> {5, 10, 15, 20}]

SubscaleNames == DOMAIN Members

Adjusted(q) ==
    IF q \in ReverseItems THEN (ScaleMax + ScaleMin) - responses[q] ELSE responses[q]

AdjustedSum(S) == SumSet(S, [q \in S |-> Adjusted(q)])
RawSum(S)      == SumSet(S, [q \in S |-> responses[q]])

Complete == DOMAIN responses = Items

ScoreOf(name) ==
    CASE name = "creativity" -> scores.creativity_score
      [] name = "curiosity"  -> scores.curiosity_score
      [] name = "judgment"   -> scores.judgment_score
      [] name = "social"     -> scores.social_wisdom_score

Range(list) == {list[i] : i \in 1..Len(list)}

\* C1: for a respondent with all 20 items answered, total_wisdom_score is
\* the sum over the 20 items of the reverse-adjusted value (6 - raw for Q2,
\* raw for every other item).
TotalIsAdjustedSum ==
    (spc = "done" /\ Complete)
    => /\ scores.status = "ok"
       /\ scores.total_wisdom_score = AdjustedSum(Items)

TotalIsAdjustedSumWitness ==
    /\ spc = "done"
    /\ Complete
    /\ scores.status = "ok"
    /\ responses[2] = 5
    /\ scores.total_wisdom_score # RawSum(Items)

\* C2: a reverse-scored item enters as (scale_max + scale_min) - raw, every
\* other item as its raw value, in the total and in the subscale that
\* holds the item alike.
ReverseScoringRule ==
    (spc = "done" /\ Complete)
    => /\ \A q \in Items : TotalTerm(q, responses) = Adjusted(q)
       /\ \A q \in Members.curiosity : CuriosityTerm(q, responses) = Adjusted(q)
       /\ \A q \in Items \ Members.curiosity : RawTerm(q, responses) = Adjusted(q)
       /\ scores.total_wisdom_score - RawSum(Items)
             = (ScaleMax + ScaleMin) - 2 * responses[2]
       /\ scores.curiosity_score - RawSum(Members.curiosity)
             = (ScaleMax + ScaleMin) - 2 * responses[2]
       /\ \A name \in SubscaleNames \ {"curiosity"} :
             ScoreOf(name) = RawSum(Members[name])

ReverseScoringWitness ==
    /\ spc = "done"
    /\ Complete
    /\ responses[2] = 1
    /\ scores.curiosity_score = RawSum(Members.curiosity) + 4
    /\ scores.total_wisdom_score = RawSum(Items) + 4

\* C3: each subscale score is the sum of the (possibly reversed) values of
\* exactly its member items.
SubscalesAreMemberSums ==
    (spc = "done" /\ Complete)
    => /\ scores.status = "ok"
       /\ \A name \in SubscaleNames : ScoreOf(name) = AdjustedSum(Members[name])

SubscalesAreMemberSumsWitness ==
    /\ spc = "done"
    /\ Complete
    /\ scores.status = "ok"
    /\ \E q \in Items \ {2} : responses[q] # responses[1]
    /\ scores.creativity_score # scores.judgment_score

\* C10: a respondent lacking a member item of a subscale gets a score row
\* whose score for that subscale is marked absent (no number stands for
\* it); the scorer does not fail for the respondent as a whole.
MissingMarkedAbsent ==
    (spc = "done" /\ ~Complete)
    => /\ scores.status = "ok"
       /\ \A name \in SubscaleNames :
             (Members[name] \ DOMAIN responses # {}) => ScoreOf(name) \notin Nat

\* the maxima display_summary prints after the scores
TotalMax     == 100
SubscaleMax  == 20
CuriosityMax == 40

ShownMax(name) == IF name = "curiosity" THEN CuriosityMax ELSE SubscaleMax

\* C29: for every complete response set with values in 1..5 the scores stay
\* within the maxima shown to the participant: 20 <= total <= 100,
\* 4 <= creativity, judgment, social wisdom <= 20, 8 <= curiosity <= 40, and
\* the reverse scoring of Q2 keeps the adjusted value inside 1..5.
ScoresWithinShownMaxima ==
    (spc = "done" /\ Complete /\ \A q \in Items : responses[q] \in ScaleMin..ScaleMax)
    => /\ scores.status = "ok"
       /\ scores.total_wisdom_score \in (Cardinality(Items) * ScaleMin)..TotalMax
       /\ Cardinality(Items) * ScaleMin = 20
       /\ \A name \in SubscaleNames :
             ScoreOf(name) \in (Cardinality(Members[name]) * ScaleMin)..ShownMax(name)
       /\ TotalTerm(2, responses) \in ScaleMin..ScaleMax
       /\ CuriosityTerm(2, responses) \in ScaleMin..ScaleMax

\* the largest scores: every item answered 5 and the reversed Q2 answered 1
ScoresWithinShownMaximaWitness ==
    /\ spc = "done"
    /\ Complete
    /\ responses[2] = 1
    /\ scores.total_wisdom_score = TotalMax
    /\ scores.curiosity_score = CuriosityMax
    /\ scores.creativity_score = SubscaleMax

-----------------------------------------------------------------------------
(* The analyzer's reliability analysis: SpecReliability *)

\* a field pandas reads as NaN (an empty Q<i>_numeric field)
NA == 0

\* the item columns initialize_csv and save_results give the response file
StandardHeader == [i \in 1..NumQuestions |-> i]

\* [col for col in self.df.columns if col.startswith('Q') and
\* col.endswith('_numeric')]: the item columns of the table, in its order
q_columns(columns) == LET IsItem(c) == c >= 1 IN SelectSeq(columns, IsItem)

\* the subscales dict of reliability_analysis, in its order
subscale_names == <<"Creativity", "Curiosity", "Judgment", "Social Wisdom">>

subscales ==
    "Creativity"    :> <<1, 6, 11, 16>> @@
    "Curiosity"     :> <<2, 4, 7, 9, 12, 14, 17, 19>> @@
    "Judgment"      :> <<3, 8, 13, 18>> @@
    "Social Wisdom" :> <<5, 10, 15, 20>>

\* subscale_name.lower().replace(' ', '_')
ResultKey(name) ==
    CASE name = "Creativity"    -> "creativity"
      [] name = "Curiosity"     -> "curiosity"
      [] name = "Judgment"      -> "judgment"
      [] name = "Social Wisdom" -> "social_wisdom"

\* self.df[cols]
SelectColumns(table, cols) ==
    [i \in 1..Len(table) |-> [j \in 1..Len(cols) |-> table[i][cols[j]]]]

HasNoNA(row) == \A j \in 1..Len(row) : row[j] # NA

\* DataFrame.dropna(): the rows with no NaN field, in order
DropNA(rows) == SelectSeq(rows, HasNoNA)

\* subscale_data_adj['Q2_numeric'] = 6 - subscale_data_adj['Q2_numeric']
ReverseQ2(rows, cols) ==
    [i \in 1..Len(rows) |->
        [j \in 1..Len(cols) |-> IF cols[j] = 2 THEN 6 - rows[i][j] ELSE rows[i][j]]]

\* the frame cronbach_alpha is called with for the whole instrument
TotalFrame(columns, q_data) == [k |-> Len(q_columns(columns)), rows |-> q_data]

\* the frame cronbach_alpha is called with for a subscale
SubscaleFrame(name, subscale_data, available_items) ==
    IF name = "Curiosity" /\ 2 \in {available_items[j] : j \in 1..Len(available_items)}
    THEN [k |-> Len(available_items), rows |-> ReverseQ2(subscale_data, available_items)]
    ELSE [k |-> Len(available_items), rows |-> subscale_data]

\* [item for item in items if item in self.df.columns]
AvailableItems(columns, name) ==
    LET InTable(c) == \E j \in 1..Len(columns) : columns[j] = c
    IN  SelectSeq(subscales[name], InTable)

\* the subscales whose alpha the loop of reliability_analysis stores
ReportedSubscales(columns, table) ==
    {name \in DOMAIN subscales :
        /\ Len(AvailableItems(columns, name)) > 1
        /\ Len(DropNA(SelectColumns(table, AvailableItems(columns, name)))) > 1}

\* WisdomAnalyzer.reliability_analysis: self.results['reliability'], set
\* only when the table has 20 item columns and more than one row without NaN
reliability_analysis(columns, table) ==
    LET q_data == DropNA(SelectColumns(table, q_columns(columns)))
        keys   == {"total"}
                    \cup {ResultKey(name) : name \in ReportedSubscales(columns, table)}
        NameOf(key) == CHOOSE name \in DOMAIN subscales : ResultKey(name) = key
        Available(key) == AvailableItems(columns, NameOf(key))
    IN  IF Len(q_columns(columns)) >= 20 /\ Len(q_data) > 1
        THEN [set |-> TRUE,
              reliability |->
                 [key \in keys |->
                    IF key = "total" THEN cronbach_alpha(TotalFrame(columns, q_data))
                    ELSE cronbach_alpha(
                            SubscaleFrame(NameOf(key),
                                          DropNA(SelectColumns(table, Available(key))),
                                          Available(key)))]]
        ELSE NoResults

\* The respondents whose rows are written to the response file: four answer
\* patterns, complete or lacking Q1 or Q2 (save_to_csv writes '' for a
\* question that is not among the submitted responses).
AnswerPatterns ==
    {[q \in 1..NumQuestions |-> 1],
     [q \in 1..NumQuestions |-> 5],
     [q \in 1..NumQuestions |-> IF q = 2 THEN 1 ELSE 5],
     [q \in 1..NumQuestions |-> 2 + (q % 3)]}

Lacking(row, q) == [row EXCEPT ![q] = NA]

RowInputs ==
    AnswerPatterns
      \cup {Lacking(row, 1) : row \in AnswerPatterns}
      \cup {Lacking(row, 2) : row \in AnswerPatterns}

InitReliability ==
    /\ csv_header = StandardHeader
    /\ csv_rows = <<>>
    /\ df_columns = <<>>
    /\ df = <<>>
    /\ results = NoResults
    /\ rpc = "collect"
    /\ ScorerIdle
    /\ AlphaIdle
    /\ StoreIdle
    /\ FlowIdle

\* a submission appends one row to the response file
AppendRow ==
    /\ rpc = "collect"
    /\ Len(csv_rows) < MaxResp
    /\ \E row \in RowInputs : csv_rows' = Append(csv_rows, row)
    /\ UNCHANGED <<flowVars, csv_header, df_columns, df, results, rpc,
                   scorerVars, alphaVars, storeVars>>

\* WisdomAnalyzer.load_data: the file is read into self.df
LoadData ==
    /\ rpc = "collect"
    /\ df_columns' = csv_header
    /\ df' = csv_rows
    /\ rpc' = "loaded"
    /\ UNCHANGED <<flowVars, csv_header, csv_rows, results, scorerVars, alphaVars, storeVars>>

ReliabilityAnalysis ==
    /\ rpc = "loaded"
    /\ results' = reliability_analysis(df_columns, df)
    /\ rpc' = "done"
    /\ UNCHANGED <<flowVars, csv_header, csv_rows, df_columns, df, scorerVars, alphaVars, storeVars>>

NextReliability == AppendRow \/ LoadData \/ ReliabilityAnalysis

SpecReliability == InitReliability /\ [][NextReliability]_vars

-----------------------------------------------------------------------------
(* Claims about the scale definitions and the reliability analysis *)

ScorerLists ==
    <<creativity_questions, curiosity_questions, judgment_questions, social_questions>>

AnalyzerLists == [i \in 1..Len(subscale_names) |-> subscales[subscale_names[i]]]

\* every item of Q1..Q20 is in exactly one list, once
Partitions(lists) ==
    /\ \A q \in Items :
          Cardinality({i \in 1..Len(lists) : q \in Range(lists[i])}) = 1
    /\ \A i \in 1..Len(lists) :
          /\ Range(lists[i]) \subseteq Items
          /\ Cardinality(Range(lists[i])) = Len(lists[i])

\* C4: the subscale lists of the scorer and of the reliability analysis
\* partition Q1..Q20, so for a complete respondent the total is the sum of
\* the four subscale scores.
SubscalesPartitionItems ==
    /\ Partitions(ScorerLists)
    /\ Partitions(AnalyzerLists)
    /\ (spc = "done" /\ Complete)
          => scores.total_wisdom_score
               = scores.creativity_score + scores.curiosity_score
                   + scores.judgment_score + scores.social_wisdom_score

SubscalesPartitionWitness ==
    /\ spc = "done"
    /\ Complete
    /\ scores.status = "ok"
    /\ responses[2] # 3
    /\ scores.total_wisdom_score
         = scores.creativity_score + scores.curiosity_score
             + scores.judgment_score + scores.social_wisdom_score
    /\ Cardinality({scores.creativity_score, scores.judgment_score,
                    scores.social_wisdom_score}) > 1

\* the item lists of the scopes, by result key
ScopeKeys == {"total", "creativity", "curiosity", "judgment", "social_wisdom"}

ScopeItems(key) ==
    CASE key = "total"         -> [i \in 1..20 |-> i]
      [] key = "creativity"    -> <<1, 6, 11, 16>>
      [] key = "curiosity"     -> <<2, 4, 7, 9, 12, 14, 17, 19>>
      [] key = "judgment"      -> <<3, 8, 13, 18>>
      [] key = "social_wisdom" -> <<5, 10, 15, 20>>

\* the respondents of the table with a value for every item of the scope
CompleteFor(key) ==
    {i \in 1..Len(df) : \A q \in Range(ScopeItems(key)) : df[i][q] # NA}

\* the rows of table whose index is in I, from row `from` on, in table order
RECURSIVE KeepRows(_, _, _)
KeepRows(table, I, from) ==
    IF from > Len(table) THEN <<>>
    ELSE (IF from \in I THEN <<table[from]>> ELSE <<>>) \o KeepRows(table, I, from + 1)

\* the frame of a scope: the respondents complete for it, restricted to its
\* items, with the item values taken from table
ScopeFrame(key, table) ==
    LET items == ScopeItems(key)
        kept  == KeepRows(table, CompleteFor(key), 1)
    IN  [k    |-> Len(items),
         rows |-> [i \in 1..Len(kept) |-> [j \in 1..Len(items) |-> kept[i][items[j]]]]]

\* the table with every reverse-scored item reverse adjusted
AdjustedTable ==
    [i \in 1..Len(df) |->
        [q \in 1..20 |->
            IF q \in ReverseItems /\ df[i][q] # NA
            THEN (ScaleMax + ScaleMin) - df[i][q] ELSE df[i][q]]]

\* the table as the analysis adjusts it for a scope: Q2 is reversed for the
\* Curiosity subscale only
TableAsAnalysed(key) == IF key = "curiosity" THEN AdjustedTable ELSE df

\* C7: every alpha of reliability_analysis, the full-instrument one and each
\* subscale one, is computed on reverse-adjusted item values (Q2 as 6 - Q2).
AlphasOnAdjustedValues ==
    (rpc = "done" /\ results.set)
    => \A key \in DOMAIN results.reliability :
          results.reliability[key] = cronbach_alpha(ScopeFrame(key, AdjustedTable))

\* the part of C7 that the code satisfies: the Curiosity alpha
CuriosityAlphaOnAdjustedValues ==
    (rpc = "done" /\ results.set /\ "curiosity" \in DOMAIN results.reliability)
    => results.reliability["curiosity"]
          = cronbach_alpha(ScopeFrame("curiosity", AdjustedTable))

\* C9: for each scope alpha is computed from exactly the respondents with a
\* value for every item of the scope, and it is computed whenever the scope
\* has at least 2 items and at least 2 such respondents.
AlphaFromCompleteRespondents ==
    rpc = "done"
    => \A key \in ScopeKeys :
          /\ (results.set /\ key \in DOMAIN results.reliability)
                => results.reliability[key]
                     = cronbach_alpha(ScopeFrame(key, TableAsAnalysed(key)))
          /\ (Len(ScopeItems(key)) >= 2 /\ Cardinality(CompleteFor(key)) >= 2)
                => (results.set /\ key \in DOMAIN results.reliability)

\* the part of C9 that the code satisfies: a reported alpha comes from
\* exactly the respondents complete for its scope
ReportedAlphaFromCompleteRespondents ==
    (rpc = "done" /\ results.set)
    => \A key \in DOMAIN results.reliability :
          /\ Cardinality(CompleteFor(key)) >= 2
          /\ results.reliability[key]
               = cronbach_alpha(ScopeFrame(key, TableAsAnalysed(key)))


-----------------------------------------------------------------------------
(* Response storage: the submit_survey and /stats handlers of api/index.py *)
(* and the save_results writer of the questionnaire: SpecStore             *)

\* Values of a JSON payload and fields of a CSV line.  A number is a float
\* record, a string is Str(s), None is the value dict.get gives for a key
\* that is not there.  The strings of the model do not parse as numbers.
Str(s) == [t |-> "str", n |-> 0, d |-> 1, s |-> s]
None   == [t |-> "none", n |-> 0, d |-> 1]

\* dict.get(key)
Get(data, key) == IF key \in DOMAIN data THEN data[key] ELSE None

\* csv.writer: None is written as the empty field, a number as its digits
\* (which float() reads back to the same number), a string as it is
CsvField(v) == IF v = None THEN Str("") ELSE v

\* truth value of a CSV field read back: any non-empty string
Truthy(field) == field # Str("")

\* float(field) succeeds on the digits of a number and raises ValueError on
\* the empty string and on other text
FloatOk(field) == IsFin(field)

score_fields ==
    <<"total_score", "creativity_score", "curiosity_score", "judgment_score",
      "social_score">>

\* data.get('responses', {}), and responses[q_key].get('value')
ResponsesOf(data) == IF "responses" \in DOMAIN data THEN data["responses"] ELSE <<>>

\* save_to_csv: the line appended for a payload (the Q<i>_text and
\* Q<i>_question fields carry no number and are left out)
RowData(data) ==
    [submission_id        |-> CsvField(Get(data, "submission_id")),
     participant_id       |-> CsvField(Get(data, "participant_id")),
     submission_timestamp |-> CsvField(Get(data, "submission_timestamp")),
     total_score          |-> CsvField(Get(data, "total_score")),
     creativity_score     |-> CsvField(Get(data, "creativity_score")),
     curiosity_score      |-> CsvField(Get(data, "curiosity_score")),
     judgment_score       |-> CsvField(Get(data, "judgment_score")),
     social_score         |-> CsvField(Get(data, "social_score")),
     numeric              |-> [i \in 1..NumQuestions |->
                                  IF i \in DOMAIN ResponsesOf(data)
                                  THEN CsvField(ResponsesOf(data)[i])
                                  ELSE Str("")]]

\* save_to_csv with the file opened in mode 'w'
save_to_csv_truncating(file, data) == [file EXCEPT !.rows = <<RowData(data)>>]

save_to_csv(file, data) == [file EXCEPT !.rows = Append(@, RowData(data))]

\* save_json_backup: data['participant_id'] raises KeyError when the key is
\* not there; otherwise the file of that participant is (over)written
BackupRaises(data) == "participant_id" \notin DOMAIN data

save_json_backup(files, data) == (data["participant_id"] :> data) @@ files

\* data['submission_id'] = ..., data['submission_timestamp'] = ...: the
\* clock value is the number of the request
WithMetadata(data, clock) ==
    ("submission_id" :> Fin(clock, 1)) @@ ("submission_timestamp" :> Fin(clock, 1)) @@ data


\* The payloads the front end posts.  A well-formed one carries the scores
\* of calculate_scores for its item values; the others differ from it in
\* one respect each.
ItemsAll(v) == [i \in 1..NumQuestions |-> Fin(v, 1)]

Honest(pid, v) ==
    LET sc == calculate_scores([q \in 1..NumQuestions |-> v])
    IN  [participant_id   |-> Str(pid),
         total_score      |-> Fin(sc.total_wisdom_score, 1),
         creativity_score |-> Fin(sc.creativity_score, 1),
         curiosity_score  |-> Fin(sc.curiosity_score, 1),
         judgment_score   |-> Fin(sc.judgment_score, 1),
         social_score     |-> Fin(sc.social_wisdom_score, 1),
         responses        |-> ItemsAll(v)]

Without(data, key) == [k \in DOMAIN data \ {key} |-> data[k]]

WithTotal(data, total) == [data EXCEPT !["total_score"] = total]

Payloads ==
    { Honest("p1", 5), Honest("p2", 1),
      WithTotal(Honest("p1", 3), Fin(10, 1)),
      WithTotal(Honest("p2", 3), Fin(20, 1)),
      WithTotal(Honest("p1", 5), Fin(30, 1)),
      WithTotal(Honest("p2", 3), Fin(25, 2)),
      Without(Honest("p1", 3), "total_score"),
      Without(Honest("p1", 3), "creativity_score"),
      Without(Honest("p1", 3), "participant_id"),
      [Honest("p2", 5) EXCEPT !["responses"] = [@ EXCEPT ![7] = Fin(9, 1)]],
      [Honest("p2", 3) EXCEPT !["responses"] = [i \in 1..6 |-> Fin(3, 1)]] }

\* submit_survey: request.json is None for a request without a JSON body and
\* the first assignment raises; otherwise the line is appended, then the
\* backup is written; any exception ends in the answer with status 'error'.
\* send_email_notification changes no stored state and never raises.
submit_survey(file, files, data, clock) ==
    IF data = None
    THEN [file |-> file, files |-> files, status |-> "error"]
    ELSE LET d == WithMetadata(data, clock)
         IN  IF BackupRaises(d)
             THEN [file |-> save_to_csv(file, d), files |-> files, status |-> "error"]
             ELSE [file   |-> save_to_csv(file, d),
                   files  |-> save_json_backup(files, d),
                   status |-> "success"]

\* read_csv_data: the rows with a non-empty total_score, in file order; a
\* ValueError of float() leaves the loop and what was read so far is returned
RECURSIVE ReadRows(_, _)
ReadRows(rows, acc) ==
    IF rows = <<>> THEN acc
    ELSE LET row == Head(rows)
         IN  IF ~Truthy(row.total_score) THEN ReadRows(Tail(rows), acc)
             ELSE IF \E i \in 1..Len(score_fields) : ~FloatOk(row[score_fields[i]])
                  THEN acc
             ELSE ReadRows(Tail(rows),
                           Append(acc,
                                  [participant_id       |-> row.participant_id,
                                   submission_timestamp |-> row.submission_timestamp,
                                   total_score          |-> row.total_score,
                                   creativity_score     |-> row.creativity_score,
                                   curiosity_score      |-> row.curiosity_score,
                                   judgment_score       |-> row.judgment_score,
                                   social_score         |-> row.social_score]))

read_csv_data(file) == IF ~file.exists THEN <<>> ELSE ReadRows(file.rows, <<>>)

\* a < b and a <= b on finite floats
FLess(a, b) == a.n * b.d < b.n * a.d
FLeq(a, b)  == a.n * b.d <= b.n * a.d

\* min() and max() of a non-empty list of finite floats
FMin(fs) == CHOOSE a \in {fs[i] : i \in DOMAIN fs} : \A i \in DOMAIN fs : FLeq(a, fs[i])
FMax(fs) == CHOOSE a \in {fs[i] : i \in DOMAIN fs} : \A i \in DOMAIN fs : FLeq(fs[i], a)

\* int(x): truncation toward zero
IntOf(a) == IF a.n >= 0 THEN a.n \div a.d ELSE -((-a.n) \div a.d)

\* the integer nearest to p/q for p >= 0 and q > 0, a tie going to the even one
RoundHalfEven(p, q) ==
    LET f == p \div q
        r == p % q
    IN  IF 2 * r < q THEN f
        ELSE IF 2 * r > q THEN f + 1
        ELSE IF f % 2 = 0 THEN f ELSE f + 1

\* round(x, 2)
Round2(a) ==
    IF a.n >= 0 THEN Fin(RoundHalfEven(100 * a.n, a.d), 100)
    ELSE Fin(-RoundHalfEven(100 * (-a.n), a.d), 100)

\* statistics.mean
RECURSIVE FSum(_)
FSum(fs) == IF fs = <<>> THEN Zero ELSE FAdd(Head(fs), FSum(Tail(fs)))

Mean(fs) == FDiv(FSum(fs), Fin(Len(fs), 1))

\* statistics.variance: the sum of squared deviations from the mean over n - 1
Variance(fs) ==
    LET m == Mean(fs)
    IN  FDiv(FSum([i \in DOMAIN fs |-> FMul(FSub(fs[i], m), FSub(fs[i], m))]),
             Fin(Len(fs) - 1, 1))

\* the largest r with r * r <= x, for 0 <= x, searched between lo and hi
RECURSIVE ISqrtIn(_, _, _)
ISqrtIn(x, lo, hi) ==
    IF lo = hi THEN lo
    ELSE LET mid == (lo + hi + 1) \div 2
         IN  IF mid * mid <= x THEN ISqrtIn(x, mid, hi) ELSE ISqrtIn(x, lo, mid - 1)

ISqrt(x) == ISqrtIn(x, 0, 46340)

\* round(statistics.stdev(xs), 2) for the variance v of xs: the number of
\* hundredths m nearest to 100 * sqrt(v), that is (2m-1)^2 <= 40000 v <= (2m+1)^2
Round2Sqrt(v) ==
    LET whole == 40000 * (v.n \div v.d) + (40000 * (v.n % v.d)) \div v.d
        exact == (40000 * (v.n % v.d)) % v.d = 0
        r     == ISqrt(whole)
        m     == (r + 1) \div 2
        tie   == exact /\ r * r = whole /\ r % 2 = 1
    IN  Fin(IF tie /\ m % 2 = 1 THEN m - 1 ELSE m, 100)


\* [r['total_score'] for r in responses if r['total_score']]: 0.0 is falsy
TotalScores(rs) ==
    LET Keep(r) == r.total_score # Zero
    IN  [i \in 1..Len(SelectSeq(rs, Keep)) |-> SelectSeq(rs, Keep)[i].total_score]

\* get_stats: the body of the answer of /stats
get_stats(file) ==
    LET rs           == read_csv_data(file)
        total_scores == TotalScores(rs)
        stamps       == [i \in DOMAIN rs |-> rs[i].submission_timestamp]
    IN  IF rs = <<>>
        THEN [kind |-> "stats", total_responses |-> 0, message |-> "No responses yet"]
        ELSE IF total_scores = <<>>
        THEN [kind |-> "stats", total_responses |-> Len(rs),
              message |-> "No valid scores found"]
        ELSE [kind                |-> "stats",
              message             |-> "",
              total_responses     |-> Len(rs),
              latest_submission   |-> FMax(stamps),
              average_total_score |-> Round2(Mean(total_scores)),
              mean                |-> Round2(Mean(total_scores)),
              min                 |-> IntOf(FMin(total_scores)),
              max                 |-> IntOf(FMax(total_scores)),
              has_std             |-> Len(total_scores) > 1,
              std                 |-> IF Len(total_scores) > 1
                                      THEN Round2Sqrt(Variance(total_scores))
                                      ELSE NaN]

\* the answers a participant of the questionnaire gives
AnswerSets == {[q \in 1..NumQuestions |-> v] : v \in Vals}

\* save_results: the header is written when the file did not exist, then
\* one line with the participant, the answers and the calculated scores
save_results(file, pid, resp) ==
    [exists |-> TRUE,
     header |-> IF file.exists THEN file.header ELSE TRUE,
     rows   |-> Append(file.rows,
                       [participant_id |-> pid, numeric |-> resp,
                        scores |-> calculate_scores(resp)])]

\* the state after the module of the API was imported (initialize_csv has
\* made the file with its header) and before the questionnaire first ran
InitStore ==
    /\ api_csv = [exists |-> TRUE, header |-> TRUE, rows |-> <<>>]
    /\ json_files = <<>>
    /\ api_log = <<>>
    /\ http_response = NoResponse
    /\ cli_csv = NoFile
    /\ cli_log = <<>>
    /\ ScorerIdle
    /\ AlphaIdle
    /\ AnalyzerIdle
    /\ FlowIdle

\* POST /submit_survey
SubmitSurvey ==
    /\ Len(api_log) + Len(cli_log) < MaxSubmit
    /\ \E data \in Payloads \cup {None} :
          LET out == submit_survey(api_csv, json_files, data, Len(api_log) + 1)
          IN  /\ api_csv' = out.file
              /\ json_files' = out.files
              /\ api_log' = Append(api_log, out.status)
              /\ http_response' = [kind |-> "submit", status |-> out.status]
    /\ UNCHANGED <<flowVars, cli_csv, cli_log, scorerVars, alphaVars, analyzerVars>>

\* GET /stats
GetStats ==
    /\ http_response' = get_stats(api_csv)
    /\ UNCHANGED <<flowVars, api_csv, json_files, api_log, cli_csv, cli_log,
                   scorerVars, alphaVars, analyzerVars>>

\* run_survey of a participant who answers every question: save_results
\* appends the line and True is returned; an interruption at a prompt ends
\* the run before save_results and False is returned
RunSurvey ==
    /\ Len(api_log) + Len(cli_log) < MaxSubmit
    /\ \E resp \in AnswerSets, interrupted \in BOOLEAN :
          IF interrupted
          THEN /\ cli_log' = Append(cli_log, FALSE)
               /\ UNCHANGED cli_csv
          ELSE /\ cli_csv' = save_results(cli_csv, Len(cli_log) + 1, resp)
               /\ cli_log' = Append(cli_log, TRUE)
    /\ UNCHANGED <<flowVars, api_csv, json_files, api_log, http_response,
                   scorerVars, alphaVars, analyzerVars>>

NextStore == SubmitSurvey \/ GetStats \/ RunSurvey

SpecStore == InitStore /\ [][NextStore]_vars


-----------------------------------------------------------------------------
(* Quantities the claims about the storage are stated with *)

IsPrefix(a, b) == Len(a) <= Len(b) /\ SubSeq(b, 1, Len(a)) = a

Count(seq, v) == Cardinality({i \in DOMAIN seq : seq[i] = v})

\* a stored line whose five score fields all hold a number
WellFormed(row) == \A i \in 1..Len(score_fields) : IsFin(row[score_fields[i]])

\* a stored line with a whole number of the scale in each of its 20 item fields
ItemsInScale(row) ==
    \A q \in 1..NumQuestions :
        /\ IsFin(row.numeric[q])
        /\ row.numeric[q].d = 1
        /\ row.numeric[q].n \in ScaleMin..ScaleMax

\* the scorer's result on the item values of a stored line
Rescored(row) == calculate_scores([q \in 1..NumQuestions |-> row.numeric[q].n])

\* C11: a malformed or out-of-scale value is rejected alone: no stored line
\* holds an item value outside the scale, and /stats counts every stored
\* line whose score fields are well formed, whatever lines precede it.
MalformedRejectedAlone ==
    /\ \A i \in DOMAIN api_csv.rows, q \in 1..NumQuestions :
          IsFin(api_csv.rows[i].numeric[q])
              => api_csv.rows[i].numeric[q].n \in ScaleMin..ScaleMax
    /\ http_response.kind = "stats"
          => http_response.total_responses
                = Cardinality({i \in DOMAIN api_csv.rows : WellFormed(api_csv.rows[i])})

\* C13: the statistics are computed from scores recomputed from the raw
\* items: when every stored line is well formed with all items in scale,
\* the mean /stats reports is the mean of the scorer's totals of the lines.
StatsFromRawItems ==
    (/\ http_response.kind = "stats"
     /\ api_csv.rows # <<>>
     /\ \A i \in DOMAIN api_csv.rows :
           WellFormed(api_csv.rows[i]) /\ ItemsInScale(api_csv.rows[i]))
    => /\ http_response.message = ""
       /\ http_response.mean
            = Round2(Mean([i \in DOMAIN api_csv.rows |->
                              Fin(Rescored(api_csv.rows[i]).total_wisdom_score, 1)]))

StoredTotals == TotalScores(read_csv_data(api_csv))

\* C20: /stats reports the count, the mean, the sample standard deviation,
\* the exact smallest and the exact largest of the stored total scores, so
\* min <= mean <= max in what it reports; on the sample [10, 20, 30] the
\* mean is 20.0 and the standard deviation 10.0.
StatsReportExact ==
    (http_response.kind = "stats" /\ http_response.message = "")
    => /\ http_response.total_responses = Len(StoredTotals)
       /\ http_response.mean = Round2(Mean(StoredTotals))
       /\ Fin(http_response.min, 1) = FMin(StoredTotals)
       /\ Fin(http_response.max, 1) = FMax(StoredTotals)
       /\ FLeq(Fin(http_response.min, 1), http_response.mean)
       /\ FLeq(http_response.mean, Fin(http_response.max, 1))
       /\ Len(StoredTotals) > 1 => http_response.has_std
       /\ StoredTotals = <<Fin(10, 1), Fin(20, 1), Fin(30, 1)>>
             => http_response.mean = Fin(20, 1) /\ http_response.std = Fin(10, 1)


\* C23: a failed submission leaves storage unchanged: whenever submit_survey
\* answers with status 'error', no line has been appended to the response
\* CSV and no JSON backup file has been written or overwritten.
FailedSubmissionStoresNothing ==
    [][(api_log' # api_log /\ api_log'[Len(api_log')] = "error")
          => (api_csv' = api_csv /\ json_files' = json_files)]_vars

\* C26: CSV storage and the JSON backup stay consistent: after any sequence
\* of successful submit_survey calls every line of the response CSV has a
\* backup file holding that same submission, and there are as many backup
\* files as lines, also when two submissions carry the same participant_id.
BackupForEveryRow ==
    Count(api_log, "success") = Len(api_log)
    => /\ Cardinality(DOMAIN json_files) = Len(api_csv.rows)
       /\ \A i \in DOMAIN api_csv.rows :
             \E f \in DOMAIN json_files :
                 json_files[f]["submission_id"] = api_csv.rows[i].submission_id

-----------------------------------------------------------------------------
(* The two adapters of the analyzer, load_data and load_json_data, on item *)
(* tables with and without the columns the scale definitions name:         *)
(* SpecLoad                                                                *)

\* the columns c of 1..21 with Q<c>_numeric in the header, in file order
HeaderOf(present) ==
    LET IsPresent(c) == c \in present
    IN  SelectSeq([c \in 1..(NumQuestions + 1) |-> c], IsPresent)

\* the standard header, a header lacking Q7_numeric, and a header lacking
\* Q7_numeric that has a Q21_numeric column
Headers ==
    { StandardHeader,
      HeaderOf((1..NumQuestions) \ {7}),
      HeaderOf((1..(NumQuestions + 1)) \ {7}) }

\* the data rows written under a header
RecordPatterns(header) ==
    LET cols == {header[j] : j \in 1..Len(header)}
    IN  {[c \in cols |-> v] : v \in Vals} \cup {[c \in cols |-> 1 + (c % 5)]}

\* the 'responses' mapping of the JSON record of a respondent: the answered
\* questions with their values
NestedOf(row) == [q \in {c \in DOMAIN row : row[c] # NA} |-> row[q]]

InitLoad ==
    /\ csv_header \in Headers
    /\ csv_rows = <<>>
    /\ df_columns = <<>>
    /\ df = <<>>
    /\ results = NoResults
    /\ rpc = "collect"
    /\ ScorerIdle
    /\ AlphaIdle
    /\ StoreIdle
    /\ FlowIdle

\* one more respondent in the response file and in the JSON folder
AppendRecord ==
    /\ rpc = "collect"
    /\ Len(csv_rows) < MaxResp
    /\ \E row \in RecordPatterns(csv_header) : csv_rows' = Append(csv_rows, row)
    /\ UNCHANGED <<flowVars, csv_header, df_columns, df, results, rpc,
                   scorerVars, alphaVars, storeVars>>

\* WisdomAnalyzer.load_json_data: pd.DataFrame(data_list) has one column per
\* top-level key of the records, 'responses' among them, and one row per
\* file in the order glob yields the files; with no file, self.df is left
\* as it is
LoadJsonData ==
    /\ rpc = "collect"
    /\ csv_rows # <<>>
    /\ \E p \in Perms(1..Len(csv_rows)) :
          df' = [i \in 1..Len(csv_rows) |-> (0 :> NestedOf(csv_rows[p[i]]))]
    /\ df_columns' = <<0>>
    /\ rpc' = "loaded"
    /\ UNCHANGED <<flowVars, csv_header, csv_rows, results, scorerVars, alphaVars, storeVars>>

NextLoad == AppendRecord \/ LoadData \/ LoadJsonData \/ ReliabilityAnalysis

SpecLoad == InitLoad /\ [][NextLoad]_vars

\* C12: when the loaded table lacks the column of an item the scale
\* definitions name, reliability_analysis fails with a configuration error:
\* it does not return normally, with the item dropped from its subscale or
\* with the reliability computation skipped.
MissingItemColumnFails ==
    (\E q \in Items : \A j \in 1..Len(df_columns) : df_columns[j] # q)
    => rpc # "done"

\* C14: whichever adapter loaded the respondents, the analyzer has the item
\* columns of the flat table, and reliability_analysis gives the results it
\* gives on the flat table.
AdaptersAgree ==
    /\ rpc \in {"loaded", "done"} => q_columns(df_columns) = q_columns(csv_header)
    /\ rpc = "done" => results = reliability_analysis(csv_header, csv_rows)

-----------------------------------------------------------------------------
(* The estimator in float64 on tables of repeated items: SpecCorrelated.   *)
(* Every row gives one answer to all items but the last, and to the last   *)
(* either the same answer or the one at the opposite end of the scale.     *)

InitCorrelated ==
    /\ matrix \in {[k |-> k, rows |-> <<>>] : k \in 1..MaxItems}
    /\ alpha_out = NaN
    /\ apc = "ready"
    /\ alpha_double = DNaN
    /\ ScorerIdle
    /\ AnalyzerIdle
    /\ StoreIdle
    /\ FlowIdle

AddRepeatedRow ==
    /\ apc = "ready"
    /\ Len(matrix.rows) < CorrRows
    /\ \E v \in ResponseOptions : \E w \in {v, ScaleMin + ScaleMax - v} :
           matrix' = [matrix EXCEPT !.rows =
                         Append(@, [j \in 1..matrix.k |-> IF j = matrix.k THEN w ELSE v])]
    /\ UNCHANGED <<flowVars, alpha_out, apc, alpha_double, scorerVars, analyzerVars, storeVars>>

\* cronbach_alpha on a table whose variances pandas computes exactly
CronbachAlphaDouble ==
    /\ apc = "ready"
    /\ ExactVariances(matrix)
    /\ alpha_out' = cronbach_alpha(matrix)
    /\ alpha_double' = cronbach_alpha_double(matrix)
    /\ apc' = "done"
    /\ UNCHANGED <<flowVars, matrix, scorerVars, analyzerVars, storeVars>>

NextCorrelated == AddRepeatedRow \/ CronbachAlphaDouble

SpecCorrelated == InitCorrelated /\ [][NextCorrelated]_vars

\* the item columns of m are one column, repeated
IdenticalColumns(m) ==
    \A i \in 1..Len(m.rows) : \A j \in 1..m.k : m.rows[i][j] = m.rows[i][1]

\* the first item column of m holds two different answers
NonConstant(m) ==
    \E i, l \in 1..Len(m.rows) : m.rows[i][1] # m.rows[l][1]

PerfectlyCorrelated(m) == m.k >= 2 /\ IdenticalColumns(m) /\ NonConstant(m)

\* C17 as stated: on a table of k >= 2 identical, non-constant item columns
\* cronbach_alpha returns exactly 1.0
PerfectCorrelationIsOne ==
    (apc = "done" /\ PerfectlyCorrelated(matrix)) => alpha_double = DOne

\* C17, amended: on a table of k >= 2 identical, non-constant item columns
\* alpha is 1 in exact arithmetic; the float64 cronbach_alpha returns is
\* exactly 1.0 for k = 2 and for [[5,5],[3,3],[1,1]], and within 2^-51 of 1
\* for every k when the variances are computed without rounding
PerfectCorrelationNearOne ==
    (apc = "done" /\ PerfectlyCorrelated(matrix)) =>
        /\ alpha_out = One
        /\ DNearOne(alpha_double, 51)
        /\ matrix.k = 2 => alpha_double = DOne
        /\ matrix.rows = <<<<5, 5>>, <<3, 3>>, <<1, 1>>>> => alpha_double = DOne

\* seven repeated items: alpha is 1 and the float64 returned is not 1.0
PerfectCorrelationWitness ==
    /\ apc = "done"
    /\ PerfectlyCorrelated(matrix)
    /\ matrix.k = 7
    /\ alpha_out = One
    /\ alpha_double # DOne

-----------------------------------------------------------------------------
(* A run of run_survey at the console, followed prompt by prompt and, in   *)
(* save_results, write by write: SpecSurvey.  A line typed at a prompt is  *)
(* a sequence of characters.                                               *)

\* self.response_options: the key typed -> the label
response_options ==
    ("5" :> "Very Much Like Me") @@ ("4" :> "Mostly Like Me")
    @@ ("3" :> "Somewhat Like Me") @@ ("2" :> "A Little Like Me")
    @@ ("1" :> "Not Like Me At All")

\* int(response) for a key of response_options
IntOfKey == ("1" :> 1) @@ ("2" :> 2) @@ ("3" :> 3) @@ ("4" :> 4) @@ ("5" :> 5)

\* str.strip(): the blanks at both ends are removed
RECURSIVE LStrip(_)
LStrip(cs) == IF cs # <<>> /\ Head(cs) = " " THEN LStrip(Tail(cs)) ELSE cs

Reversed(cs) == [j \in 1..Len(cs) |-> cs[Len(cs) + 1 - j]]

Strip(cs) == Reversed(LStrip(Reversed(LStrip(cs))))

\* the string the characters cs spell
RECURSIVE StrOf(_)
StrOf(cs) == IF cs = <<>> THEN "" ELSE Head(cs) \o StrOf(Tail(cs))

\* response in self.response_options
InResponseOptions(response) == StrOf(response) \in DOMAIN response_options

\* the lines a participant types at 'Your response (1-5): '
Inputs ==
    { <<"1">>, <<"2">>, <<"3">>, <<"4">>, <<"5">>, <<" ", "4", " ">>,
      <<>>, <<" ">>, <<"0">>, <<"6">>, <<"x">>, <<"1", "0">>, <<"3", ".", "0">>, <<"-", "1">> }

\* the pass of the while loop in which an invalid line moves on to the
\* next question all the same
ask_moving_on(sv, line) ==
    LET response == Strip(line)
        after    == [sv EXCEPT !.input = line,
                                !.i = @ + 1,
                                !.pc = IF sv.i < NumQuestions THEN "asking" ELSE "saving"]
    IN  IF InResponseOptions(response)
        THEN [after EXCEPT !.responses =
                 (sv.i :> [numeric_response |-> IntOfKey[StrOf(response)],
                           text_response    |-> response_options[StrOf(response)]]) @@ @]
        ELSE after

\* one pass of the while loop of administer_questionnaire at question i: a
\* key of response_options is recorded under Q<i> and ends the loop of the
\* question (i is then the number of the next question, NumQuestions + 1
\* after the last); any other line changes nothing and the prompt repeats
ask(sv, line) ==
    LET response == Strip(line)
    IN  IF InResponseOptions(response)
        THEN [sv EXCEPT !.input = line,
                        !.responses =
                            (sv.i :> [numeric_response |-> IntOfKey[StrOf(response)],
                                      text_response    |-> response_options[StrOf(response)]]) @@ @,
                        !.i = @ + 1,
                        !.pc = IF sv.i < NumQuestions THEN "asking" ELSE "saving"]
        ELSE [sv EXCEPT !.input = line]

\* fieldnames of save_results
QNumeric == [i \in 1..NumQuestions |-> "Q" \o ToString(i) \o "_numeric"]
QText    == [i \in 1..NumQuestions |-> "Q" \o ToString(i) \o "_text"]

fieldnames ==
    <<"participant_id", "timestamp", "age", "gender", "education">>
    \o QNumeric \o QText
    \o <<"total_wisdom_score", "average_wisdom_score", "creativity_score",
         "curiosity_score", "judgment_score", "social_wisdom_score">>

\* the numeric responses as the scorer reads them
NumericOf(resp) == [q \in DOMAIN resp |-> resp[q].numeric_response]

\* row_data of save_results: participant_info, the Q<i>_numeric and
\* Q<i>_text entries of the loop, and the scores
row_data(participant_id, resp) ==
    LET sc == calculate_scores(NumericOf(resp))
    IN  ("participant_id" :> Str(participant_id)) @@ ("timestamp" :> Str("now"))
        @@ ("age" :> Str("")) @@ ("gender" :> Str("")) @@ ("education" :> Str(""))
        @@ [name \in Range(QNumeric) |->
               Fin(resp[CHOOSE i \in 1..NumQuestions : QNumeric[i] = name].numeric_response, 1)]
        @@ [name \in Range(QText) |->
               Str(resp[CHOOSE i \in 1..NumQuestions : QText[i] = name].text_response)]
        @@ ("total_wisdom_score" :> Fin(sc.total_wisdom_score, 1))
        @@ ("average_wisdom_score" :> sc.average_wisdom_score)
        @@ ("creativity_score" :> Fin(sc.creativity_score, 1))
        @@ ("curiosity_score" :> Fin(sc.curiosity_score, 1))
        @@ ("judgment_score" :> Fin(sc.judgment_score, 1))
        @@ ("social_wisdom_score" :> Fin(sc.social_wisdom_score, 1))

\* DictWriter.writeheader and DictWriter.writerow: a field per name of
\* fieldnames, in that order
HeaderLine(names) == [j \in 1..Len(names) |-> Str(names[j])]

DictLine(names, row) ==
    [j \in 1..Len(names) |-> IF names[j] \in DOMAIN row THEN row[names[j]] ELSE Str("")]

\* if not file_exists, with the test left out
NeedsHeader_always(file_exists) == TRUE

\* if not file_exists: writer.writeheader()
NeedsHeader(file_exists) == ~file_exists

\* the answers of a participant who gives one answer to every question but Q2
Uniform(resp) ==
    \A q, r \in DOMAIN resp \ {2} : resp[q].numeric_response = resp[r].numeric_response

\* the results file before the run: missing, or left by an earlier participant
EarlierFile ==
    [exists |-> TRUE,
     lines  |-> << HeaderLine(fieldnames),
                   DictLine(fieldnames,
                            row_data("P_earlier",
                                     [q \in 1..NumQuestions |->
                                         [numeric_response |-> 3,
                                          text_response |-> response_options["3"]]])) >>]

InitSurvey ==
    /\ survey = [NoSurvey EXCEPT !.pc = "begin"]
    /\ cli_file \in {NoLines, EarlierFile}
    /\ api_file = NoLines
    /\ analysis = NoAnalysis
    /\ ScorerIdle
    /\ AlphaIdle
    /\ AnalyzerIdle
    /\ StoreIdle

\* input("Press Enter to begin the survey...")
BeginSurvey ==
    /\ survey.pc = "begin"
    /\ survey' = [survey EXCEPT !.pc = "info"]
    /\ UNCHANGED <<api_file, cli_file, analysis, scorerVars, alphaVars, analyzerVars, storeVars>>

\* collect_participant_info: the id typed, or one made from the clock
CollectParticipantInfo ==
    /\ survey.pc = "info"
    /\ \E line \in {<<>>, <<" ", "a", "7">>} :
          survey' = [survey EXCEPT
                        !.pc = "asking",
                        !.i = 1,
                        !.participant_id =
                            IF Strip(line) = <<>> THEN "P_now" ELSE StrOf(Strip(line))]
    /\ UNCHANGED <<api_file, cli_file, analysis, scorerVars, alphaVars, analyzerVars, storeVars>>

\* response = input("Your response (1-5): ").strip() and the test on it
ReadResponse ==
    /\ survey.pc = "asking"
    /\ \E line \in Inputs :
          /\ Uniform(ask(survey, line).responses)
          /\ survey' = ask(survey, line)
    /\ UNCHANGED <<api_file, cli_file, analysis, scorerVars, alphaVars, analyzerVars, storeVars>>

\* save_results, lines 157-159: the existence test, then open(filename, 'a')
OpenResults ==
    /\ survey.pc = "saving"
    /\ survey' = [survey EXCEPT !.pc = "opened", !.file_exists = cli_file.exists]
    /\ cli_file' = [cli_file EXCEPT !.exists = TRUE]
    /\ UNCHANGED <<api_file, analysis, scorerVars, alphaVars, analyzerVars, storeVars>>

\* save_results, lines 169-170
WriteHeader ==
    /\ survey.pc = "opened"
    /\ survey' = [survey EXCEPT !.pc = "headed"]
    /\ cli_file' = IF NeedsHeader(survey.file_exists)
                   THEN [cli_file EXCEPT !.lines = Append(@, HeaderLine(fieldnames))]
                   ELSE cli_file
    /\ UNCHANGED <<api_file, analysis, scorerVars, alphaVars, analyzerVars, storeVars>>

\* save_results, lines 173-187
WriteRow ==
    /\ survey.pc = "headed"
    /\ survey' = [survey EXCEPT !.pc = "summary"]
    /\ cli_file' = [cli_file EXCEPT !.lines =
                       Append(@, DictLine(fieldnames,
                                          row_data(survey.participant_id, survey.responses)))]
    /\ UNCHANGED <<api_file, analysis, scorerVars, alphaVars, analyzerVars, storeVars>>

\* display_summary, then return True
DisplaySummary ==
    /\ survey.pc = "summary"
    /\ survey' = [survey EXCEPT !.pc = "returned"]
    /\ cli_log' = Append(cli_log, TRUE)
    /\ UNCHANGED <<api_file, cli_file, analysis, scorerVars, alphaVars, analyzerVars,
                   api_csv, json_files, api_log, http_response, cli_csv>>

\* Ctrl-C while run_survey is inside its try block: the with statement of
\* save_results closes the file, the except branch prints 'Survey
\* interrupted. Your responses have not been saved.' and returns False
KeyboardInterrupt ==
    /\ survey.pc \in {"begin", "info", "asking", "saving", "opened", "headed", "summary"}
    /\ survey' = [survey EXCEPT !.pc = "interrupted"]
    /\ cli_log' = Append(cli_log, FALSE)
    /\ UNCHANGED <<api_file, cli_file, analysis, scorerVars, alphaVars, analyzerVars,
                   api_csv, json_files, api_log, http_response, cli_csv>>

NextSurvey ==
    \/ BeginSurvey
    \/ CollectParticipantInfo
    \/ ReadResponse
    \/ OpenResults
    \/ WriteHeader
    \/ WriteRow
    \/ DisplaySummary
    \/ KeyboardInterrupt

SpecSurvey == InitSurvey /\ [][NextSurvey]_vars

\* the keys '1'..'5'
ValidKeys == {"1", "2", "3", "4", "5"}

\* every answer recorded so far is a value of the scale with its own label,
\* and the answers recorded are those to the questions before the current one
RecordedInOrder ==
    /\ \A q \in DOMAIN survey.responses :
          /\ survey.responses[q].numeric_response \in ScaleMin..ScaleMax
          /\ \E k \in ValidKeys :
                /\ IntOfKey[k] = survey.responses[q].numeric_response
                /\ response_options[k] = survey.responses[q].text_response
    /\ survey.pc = "asking"
          => /\ survey.i \in 1..NumQuestions
             /\ DOMAIN survey.responses = 1..(survey.i - 1)
    /\ survey.pc \in {"saving", "opened", "headed", "summary", "returned"}
          => DOMAIN survey.responses = 1..NumQuestions

\* a step at the prompt of question i records the key typed (blanks around
\* it aside) under Q<i> and moves on, or, for any other line, changes
\* neither the answers nor the question
RecordsOnlyValidKeys ==
    (survey.pc = "asking" /\ survey'.pc # "interrupted")
    => LET typed == StrOf(Strip(survey'.input))
       IN  IF typed \in ValidKeys
           THEN /\ survey'.responses =
                      (survey.i :> [numeric_response |-> IntOfKey[typed],
                                    text_response    |-> response_options[typed]])
                      @@ survey.responses
                /\ survey'.i = survey.i + 1
           ELSE /\ survey'.responses = survey.responses
                /\ survey'.i = survey.i
                /\ survey'.pc = "asking"

\* C25: in administer_questionnaire, for any sequence of inputs, a response
\* is recorded only when the input is one of '1'..'5'; an invalid input
\* stores nothing and does not advance to the next question.  Hence every
\* recorded numeric_response lies in 1..5 with the matching text label,
\* the questions are answered in the order Q1..Q20, and on completion
\* exactly Q1..Q20 are recorded.
AdministerRecordsValidOnly == []RecordedInOrder /\ [][RecordsOnlyValidKeys]_vars

\* an invalid line at the prompt of the last question, after 19 answers
AdministerWitness ==
    /\ survey.pc = "asking"
    /\ survey.i = NumQuestions
    /\ StrOf(Strip(survey.input)) \notin ValidKeys
    /\ DOMAIN survey.responses = 1..(NumQuestions - 1)
    /\ survey.responses[2].numeric_response # survey.responses[1].numeric_response

\* C24: when run_survey ends through the interruption path (return value
\* False after 'Your responses have not been saved'), no line for this
\* participant has been written to the results file, wherever the
\* interruption came.
InterruptedRunSavedNothing ==
    survey.pc = "interrupted"
    => \A j \in DOMAIN cli_file.lines :
           cli_file.lines[j][1] # Str(survey.participant_id)

-----------------------------------------------------------------------------
(* The two response files line by line, every field of a line kept, under  *)
(* whole saves: SpecFiles                                                  *)

\* headers of initialize_csv
meta_headers ==
    <<"submission_id", "participant_id", "age", "gender", "education",
      "submission_timestamp", "total_score", "creativity_score",
      "curiosity_score", "judgment_score", "social_score">>

RECURSIVE question_headers(_)
question_headers(i) ==
    IF i > NumQuestions THEN <<>>
    ELSE << "Q" \o ToString(i) \o "_numeric", "Q" \o ToString(i) \o "_text",
            "Q" \o ToString(i) \o "_question" >> \o question_headers(i + 1)

headers == meta_headers \o question_headers(1)

\* initialize_csv: the file is made, with the header line, if it is not there
initialize_csv(file) ==
    IF file.exists THEN file
    ELSE [exists |-> TRUE, lines |-> <<HeaderLine(headers)>>]

\* the loop of save_to_csv with nothing written for a question that is not
\* among the responses
RECURSIVE question_fields_skipping(_, _)
question_fields_skipping(resp, i) ==
    IF i > NumQuestions THEN <<>>
    ELSE LET q_key == "Q" \o ToString(i)
         IN  (IF q_key \in DOMAIN resp
              THEN << CsvField(Get(resp[q_key], "value")),
                      CsvField(Get(resp[q_key], "text")),
                      CsvField(Get(resp[q_key], "question")) >>
              ELSE <<>>)
             \o question_fields_skipping(resp, i + 1)

\* the loop of save_to_csv over range(1, 21)
RECURSIVE question_fields(_, _)
question_fields(resp, i) ==
    IF i > NumQuestions THEN <<>>
    ELSE LET q_key == "Q" \o ToString(i)
         IN  (IF q_key \in DOMAIN resp
              THEN << CsvField(Get(resp[q_key], "value")),
                      CsvField(Get(resp[q_key], "text")),
                      CsvField(Get(resp[q_key], "question")) >>
              ELSE << Str(""), Str(""), Str("") >>)
             \o question_fields(resp, i + 1)

\* the line save_to_csv writes for a payload
api_row_data(data) ==
    [j \in 1..Len(meta_headers) |-> CsvField(Get(data, meta_headers[j]))]
    \o question_fields(ResponsesOf(data), 1)

\* submit_survey on a payload with a participant_id: metadata, line, backup
submit_to_file(file, files, data, clock) ==
    LET d == WithMetadata(data, clock)
    IN  [file  |-> [file EXCEPT !.lines = Append(@, api_row_data(d))],
         files |-> save_json_backup(files, d)]

\* the payload of the front end for the questions of `present`, each
\* answered v; the participant is numbered so that no backup is overwritten
Submission(n, present, v) ==
    [participant_id   |-> Str("p" \o ToString(n)),
     age              |-> Str("30"),
     total_score      |-> Fin(v * Cardinality(present), 1),
     creativity_score |-> Fin(v * Cardinality(present \cap {1, 6, 11, 16}), 1),
     responses        |->
         [q_key \in {"Q" \o ToString(i) : i \in present} |->
             [value    |-> Fin(v, 1),
              text     |-> Str(response_options[ToString(v)]),
              question |-> Str("question " \o q_key)]]]

\* the sets of questions a payload answers
PresentSets ==
    { 1..NumQuestions, {}, (1..NumQuestions) \ {7}, (1..NumQuestions) \ {1},
      (1..NumQuestions) \ {20}, {12}, 1..6, {2, 4, 7, 9, 12, 14, 17, 19} }

\* save_results as a whole: the header when the file was not there, then
\* the line; self.responses[q_key] raises KeyError for an answer that is
\* missing, after the header and before the line
save_results_lines(file, participant_id, resp) ==
    LET opened == [file EXCEPT !.exists = TRUE]
        headed == IF NeedsHeader(file.exists)
                  THEN [opened EXCEPT !.lines = Append(@, HeaderLine(fieldnames))]
                  ELSE opened
    IN  IF DOMAIN resp = 1..NumQuestions
        THEN [headed EXCEPT !.lines =
                 Append(@, DictLine(fieldnames, row_data(participant_id, resp)))]
        ELSE headed

\* the responses of a questionnaire object: all answered v, or only Q1..Q6
ResponseSets ==
    { [q \in 1..n |-> [numeric_response |-> v,
                       text_response    |-> response_options[ToString(v)]]] :
          n \in {6, NumQuestions}, v \in Vals }

InitFiles ==
    /\ api_file = NoLines
    /\ cli_file = NoLines
    /\ survey = NoSurvey
    /\ analysis = NoAnalysis
    /\ ScorerIdle
    /\ AlphaIdle
    /\ AnalyzerIdle
    /\ StoreIdle

\* the module of the API is imported (the server starts): line 269
ImportApi ==
    /\ api_file' = initialize_csv(api_file)
    /\ UNCHANGED <<survey, cli_file, analysis, scorerVars, alphaVars, analyzerVars, storeVars>>

\* POST /submit_survey on the running server
SubmitToFile ==
    /\ api_file.exists
    /\ Len(api_log) + Len(cli_log) < MaxSubmit
    /\ \E present \in PresentSets, v \in {2, 5} :
          LET n   == Len(api_log) + 1
              out == submit_to_file(api_file, json_files, Submission(n, present, v), n)
          IN  /\ api_file' = out.file
              /\ json_files' = out.files
              /\ api_log' = Append(api_log, "success")
    /\ UNCHANGED <<survey, cli_file, analysis, scorerVars, alphaVars, analyzerVars,
                   api_csv, http_response, cli_csv, cli_log>>

\* save_results of one more questionnaire object
SaveResults ==
    /\ Len(api_log) + Len(cli_log) < MaxSubmit
    /\ \E resp \in ResponseSets :
          /\ cli_file' = save_results_lines(cli_file, "P_" \o ToString(Len(cli_log) + 1), resp)
          /\ cli_log' = Append(cli_log, DOMAIN resp = 1..NumQuestions)
    /\ UNCHANGED <<survey, api_file, analysis, scorerVars, alphaVars, analyzerVars,
                   api_csv, json_files, api_log, http_response, cli_csv>>

NextFiles == ImportApi \/ SubmitToFile \/ SaveResults

SpecFiles == InitFiles /\ [][NextFiles]_vars

\* the key of a response under which the part of a question column is posted
ColumnKey == [numeric |-> "value", text |-> "text", question |-> "question"]

\* for every column of the header that belongs to a question, the key of
\* that question in the responses and the key of the part the column holds
QuestionColumns ==
    [c \in {c \in DOMAIN headers : headers[c] \notin Range(meta_headers)} |->
        CHOOSE x \in (1..NumQuestions) \X DOMAIN ColumnKey :
            headers[c] = "Q" \o ToString(x[1]) \o "_" \o x[2]]

\* what column c of the response CSV is to hold for a payload: the entry of
\* the column's name, or the part of the response to its question; the
\* empty string where the payload has nothing
ExpectedField(data, c) ==
    IF c \notin DOMAIN QuestionColumns THEN CsvField(Get(data, headers[c]))
    ELSE LET resp == ResponsesOf(data)
             q    == "Q" \o ToString(QuestionColumns[c][1])
         IN  IF q \in DOMAIN resp
             THEN CsvField(Get(resp[q], ColumnKey[QuestionColumns[c][2]]))
             ELSE Str("")

\* C27: every line save_to_csv writes has as many fields as the header of
\* initialize_csv (11 + 3 * 20 = 71), in the order of its columns, for any
\* subset of Q1..Q20 in the submitted responses; a question that is absent
\* holds empty strings in its three columns, and shifts no later column.
RowsFollowHeader ==
    \A j \in 2..Len(api_file.lines) :
        LET line == api_file.lines[j]
            data == json_files[line[2]]
        IN  /\ Len(api_file.lines[1]) = 71
            /\ Len(line) = Len(api_file.lines[1])
            /\ api_file.lines[1] = HeaderLine(headers)
            /\ \A c \in 1..Len(line) : line[c] = ExpectedField(data, c)

\* a stored submission without Q7: its three columns are empty and Q8 follows
RowsFollowHeaderWitness ==
    \E j \in 2..Len(api_file.lines) :
        LET line == api_file.lines[j]
        IN  /\ "Q7" \notin DOMAIN json_files[line[2]]["responses"]
            /\ "Q8" \in DOMAIN json_files[line[2]]["responses"]
            /\ Len(line) = 71
            /\ line[30] = Str("") /\ line[31] = Str("") /\ line[32] = Str("")
            /\ line[33] = Fin(5, 1)

\* the file begins with the header line of `names` and every later line is
\* a data line of as many fields
HeaderOnceAtTop(file, names) ==
    /\ file.exists => file.lines # <<>>
    /\ file.lines # <<>> => file.lines[1] = HeaderLine(names)
    /\ \A j \in 2..Len(file.lines) :
          /\ file.lines[j] # HeaderLine(names)
          /\ Len(file.lines[j]) = Len(names)
          /\ \A c \in 1..Len(names) : file.lines[j][c] # Str(names[c])

\* C28: after any sequence of saves, one after the other, that starts from
\* a missing file, the response CSV begins with the header line and holds
\* the header exactly once; every later line is a data line.
HeaderExactlyOnce ==
    /\ HeaderOnceAtTop(cli_file, fieldnames)
    /\ HeaderOnceAtTop(api_file, headers)

\* two questionnaire runs saved after each other, and a submission stored
HeaderExactlyOnceWitness ==
    /\ cli_log = <<TRUE, TRUE>>
    /\ Len(cli_file.lines) = 3
    /\ Len(api_file.lines) = 2

-----------------------------------------------------------------------------
(* WisdomAnalyzer.run_complete_analysis, step by step, on the default data *)
(* file of the analyzer (the file save_results writes) and on the JSON     *)
(* folder of the API: SpecAnalysis                                         *)

\* the columns of the data file that carry a score: fieldnames of save_results
cli_score_columns ==
    {"total_wisdom_score", "average_wisdom_score", "creativity_score",
     "curiosity_score", "judgment_score", "social_wisdom_score"}

\* the top-level keys of a JSON record that carry a score
json_score_columns ==
    {"total_score", "creativity_score", "curiosity_score", "judgment_score",
     "social_score"}

\* score_columns of basic_statistics
statistics_columns ==
    {"total_wisdom_score", "average_wisdom_score", "creativity_score",
     "curiosity_score", "judgment_score", "social_wisdom_score"}

\* score_columns of correlation_analysis and of generate_plots
plot_columns ==
    {"total_wisdom_score", "creativity_score", "curiosity_score",
     "judgment_score", "social_wisdom_score"}

\* the grid of plt.subplots(2, 3), flattened
axes == 2 * 3

\* the steps of run_complete_analysis after the load, in the order of the calls
analysis_steps ==
    <<"basic_statistics", "correlation_analysis", "reliability_analysis",
      "generate_plots", "export_report">>

\* the rows of the respondents of a run
AnalysisRows ==
    {[q \in 1..NumQuestions |-> IF q = 2 THEN 1 ELSE 5],
     [q \in 1..NumQuestions |-> 2 + (q % 3)],
     Lacking([q \in 1..NumQuestions |-> 2 + (q % 3)], 2)}

\* the objects reliability_analysis holds while it treats the Curiosity
\* subscale: self.df, self.df[available_items].dropna() and its .copy();
\* col gives the column of every key of a row
CuriosityFrames(columns, table) ==
    LET available_items == AvailableItems(columns, "Curiosity")
        subscale_data   == DropNA(SelectColumns(table, available_items))
    IN  [df                |-> [col  |-> [c \in Range(columns) |-> c],
                                rows |-> table],
         subscale_data     |-> [col |-> available_items, rows |-> subscale_data],
         subscale_data_adj |-> [col |-> available_items, rows |-> subscale_data]]

\* frame['Q2_numeric'] = 6 - frame['Q2_numeric'] on the object named target
AssignQ2(frames, target) ==
    LET frame == frames[target]
        Adj(row) == [k \in DOMAIN row |->
                        IF frame.col[k] = 2 /\ row[k] # NA THEN 6 - row[k]
                        ELSE row[k]]
    IN  [frames EXCEPT ![target].rows = [i \in DOMAIN frame.rows |-> Adj(frame.rows[i])]]

\* the adjustment written into the loaded table itself
Q2Target_df == "df"

\* the object line 177 assigns to
Q2Target == "subscale_data_adj"

\* self.df after reliability_analysis: the Q2 adjustment is made where the
\* table has the 20 item columns, more than one complete row, and the
\* Curiosity items with Q2 among them in more than one row without NaN
df_after_reliability(columns, table) ==
    LET q_data          == DropNA(SelectColumns(table, q_columns(columns)))
        available_items == AvailableItems(columns, "Curiosity")
    IN  IF /\ Len(q_columns(columns)) >= 20
           /\ Len(q_data) > 1
           /\ Len(available_items) > 1
           /\ Len(DropNA(SelectColumns(table, available_items))) > 1
           /\ 2 \in Range(available_items)
        THEN AssignQ2(CuriosityFrames(columns, table), Q2Target).df.rows
        ELSE table

NewAnalysis(exists) ==
    [pc |-> "collect", csv_exists |-> exists, json |-> <<>>, tried |-> <<>>,
     loaded |-> "none", df_scores |-> {}, steps |-> <<>>, returned |-> "none",
     report |-> FALSE, printed_size |-> -1, sample_size |-> -1]

\* the data file is missing, or holds the header alone
InitAnalysis ==
    /\ analysis \in {NewAnalysis(exists) : exists \in BOOLEAN}
    /\ csv_header = StandardHeader
    /\ csv_rows = <<>>
    /\ df_columns = <<>>
    /\ df = <<>>
    /\ results = NoResults
    /\ rpc = "idle"
    /\ survey = NoSurvey
    /\ api_file = NoLines
    /\ cli_file = NoLines
    /\ ScorerIdle
    /\ AlphaIdle
    /\ StoreIdle

\* a questionnaire run is saved: save_results makes the file if it is
\* missing and appends the respondent's line
SaveRun ==
    /\ analysis.pc = "collect"
    /\ Len(csv_rows) + Len(analysis.json) < MaxResp
    /\ \E row \in AnalysisRows : csv_rows' = Append(csv_rows, row)
    /\ analysis' = [analysis EXCEPT !.csv_exists = TRUE]
    /\ UNCHANGED <<survey, api_file, cli_file, csv_header, df_columns, df,
                   results, rpc, scorerVars, alphaVars, storeVars>>

\* a submission is backed up in the JSON folder, with or without score keys
BackupSubmission ==
    /\ analysis.pc = "collect"
    /\ Len(csv_rows) + Len(analysis.json) < MaxResp
    /\ \E row \in AnalysisRows, scored \in BOOLEAN :
          analysis' = [analysis EXCEPT
                          !.json = Append(@, [responses |-> NestedOf(row),
                                              scored    |-> scored])]
    /\ UNCHANGED <<survey, api_file, cli_file, analyzerVars, scorerVars,
                   alphaVars, storeVars>>

\* run_complete_analysis is called
RunCompleteAnalysis ==
    /\ analysis.pc = "collect"
    /\ analysis' = [analysis EXCEPT !.pc = "load_data"]
    /\ UNCHANGED <<survey, api_file, cli_file, analyzerVars, scorerVars,
                   alphaVars, storeVars>>

\* line 290: load_data reads the file if it exists
LoadCsv ==
    /\ analysis.pc = "load_data"
    /\ IF analysis.csv_exists
       THEN /\ df_columns' = csv_header
            /\ df' = csv_rows
            /\ analysis' = [analysis EXCEPT !.pc = "basic_statistics",
                                            !.tried = Append(@, "csv"),
                                            !.loaded = "csv",
                                            !.df_scores = cli_score_columns]
       ELSE /\ analysis' = [analysis EXCEPT !.pc = "load_json_data",
                                            !.tried = Append(@, "csv")]
            /\ UNCHANGED <<df_columns, df>>
    /\ UNCHANGED <<survey, api_file, cli_file, csv_header, csv_rows, results,
                   rpc, scorerVars, alphaVars, storeVars>>

\* lines 291-293: load_json_data, and the return of False when it fails too
LoadJson ==
    /\ analysis.pc = "load_json_data"
    /\ IF analysis.json = <<>>
       THEN /\ analysis' = [analysis EXCEPT !.pc = "ended",
                                            !.tried = Append(@, "json"),
                                            !.returned = "False"]
            /\ UNCHANGED <<df_columns, df>>
       ELSE /\ \E p \in Perms(1..Len(analysis.json)) :
                  df' = [i \in 1..Len(analysis.json) |->
                            (0 :> analysis.json[p[i]].responses)]
            /\ df_columns' = <<0>>
            /\ analysis' = [analysis EXCEPT
                  !.pc = "basic_statistics",
                  !.tried = Append(@, "json"),
                  !.loaded = "json",
                  !.df_scores =
                      IF \E i \in 1..Len(analysis.json) : analysis.json[i].scored
                      THEN json_score_columns ELSE {}]
    /\ UNCHANGED <<survey, api_file, cli_file, csv_header, csv_rows, results,
                   rpc, scorerVars, alphaVars, storeVars>>

\* line 296: the sample size is printed; it is stored with the statistics
\* when the table has a score column
BasicStatistics ==
    /\ analysis.pc = "basic_statistics"
    /\ analysis' = [analysis EXCEPT
          !.pc = "correlation_analysis",
          !.steps = Append(@, "basic_statistics"),
          !.printed_size = Len(df),
          !.sample_size = IF analysis.df_scores \cap statistics_columns # {}
                          THEN Len(df) ELSE @]
    /\ UNCHANGED <<survey, api_file, cli_file, analyzerVars, scorerVars,
                   alphaVars, storeVars>>

\* line 297: with more than one score column the correlation matrix is
\* computed and drawn; on a table of fewer than two rows the libraries may
\* complete or raise
CorrelationAnalysis ==
    /\ analysis.pc = "correlation_analysis"
    /\ \E raised \in BOOLEAN :
          /\ raised => /\ Cardinality(analysis.df_scores \cap plot_columns) > 1
                       /\ Len(df) < 2
          /\ analysis' = [analysis EXCEPT
                !.pc = IF raised THEN "ended" ELSE "reliability_analysis",
                !.steps = Append(@, "correlation_analysis"),
                !.returned = IF raised THEN "Exception" ELSE @]
    /\ UNCHANGED <<survey, api_file, cli_file, analyzerVars, scorerVars,
                   alphaVars, storeVars>>

\* line 298
ReliabilityStep ==
    /\ analysis.pc = "reliability_analysis"
    /\ results' = reliability_analysis(df_columns, df)
    /\ df' = df_after_reliability(df_columns, df)
    /\ analysis' = [analysis EXCEPT !.pc = "generate_plots",
                                    !.steps = Append(@, "reliability_analysis")]
    /\ UNCHANGED <<survey, api_file, cli_file, csv_header, csv_rows,
                   df_columns, rpc, scorerVars, alphaVars, storeVars>>

\* line 299: with no score column generate_plots returns at once; otherwise
\* line 233 calls axes[j].hide() for the first subplot left empty, and an
\* Axes has no attribute hide
GeneratePlots ==
    /\ analysis.pc = "generate_plots"
    /\ LET available_scores == analysis.df_scores \cap plot_columns
       IN  analysis' = [analysis EXCEPT
              !.pc = IF available_scores # {} /\ Cardinality(available_scores) < axes
                     THEN "ended" ELSE "export_report",
              !.steps = Append(@, "generate_plots"),
              !.returned = IF available_scores # {}
                              /\ Cardinality(available_scores) < axes
                           THEN "AttributeError" ELSE @]
    /\ UNCHANGED <<survey, api_file, cli_file, analyzerVars, scorerVars,
                   alphaVars, storeVars>>

\* lines 300-306: the report is written and True returned
ExportReport ==
    /\ analysis.pc = "export_report"
    /\ analysis' = [analysis EXCEPT !.pc = "ended",
                                    !.steps = Append(@, "export_report"),
                                    !.report = TRUE,
                                    !.returned = "True"]
    /\ UNCHANGED <<survey, api_file, cli_file, analyzerVars, scorerVars,
                   alphaVars, storeVars>>

NextAnalysis ==
    \/ SaveRun
    \/ BackupSubmission
    \/ RunCompleteAnalysis
    \/ LoadCsv
    \/ LoadJson
    \/ BasicStatistics
    \/ CorrelationAnalysis
    \/ ReliabilityStep
    \/ GeneratePlots
    \/ ExportReport

SpecAnalysis == InitAnalysis /\ [][NextAnalysis]_vars

\* C30: run_complete_analysis tries the CSV source first and the JSON source
\* only if the CSV load fails; if both fail it returns False without running
\* an analysis step or writing a report; otherwise it runs basic_statistics,
\* correlation_analysis, reliability_analysis, generate_plots and
\* export_report in exactly that order and then returns True.
RunsEveryStepInOrder ==
    analysis.pc = "ended"
    => /\ analysis.tried = IF analysis.csv_exists THEN <<"csv">>
                           ELSE <<"csv", "json">>
       /\ IF analysis.loaded = "none"
          THEN /\ analysis.returned = "False"
               /\ analysis.steps = <<>>
               /\ ~analysis.report
          ELSE /\ analysis.steps = analysis_steps
               /\ analysis.report
               /\ analysis.returned = "True"

\* the file of get_stats that holds the header alone
HeaderOnlyFile == [exists |-> TRUE, header |-> TRUE, rows |-> <<>>]

\* C21: aggregating over empty input is not an error: when no responses
\* have been stored (response file missing, or holding only the header),
\* /stats and the analyzer's statistics return a result reporting a count
\* of zero, and do not raise or return an error status.
EmptyInputCountsZero ==
    /\ \A file \in {NoFile, HeaderOnlyFile} :
          /\ get_stats(file).kind = "stats"
          /\ get_stats(file).total_responses = 0
    /\ (analysis.pc = "ended" /\ csv_rows = <<>> /\ analysis.json = <<>>)
       => /\ analysis.printed_size = 0
          /\ analysis.returned = "True"

\* C22: analysis runs are read-only: no operation of the analyzer (the two
\* loads, basic_statistics, correlation_analysis, reliability_analysis with
\* its Q2 adjustment, generate_plots, export_report) changes the stored
\* response file or a value of the loaded table self.df; the reverse
\* scoring for the reliability is applied to a copy only.
AnalysisIsReadOnly ==
    [][analysis.pc \notin {"idle", "collect"}
         => /\ csv_header' = csv_header
            /\ csv_rows' = csv_rows
            /\ analysis'.csv_exists = analysis.csv_exists
            /\ analysis'.json = analysis.json
            /\ analysis.loaded # "none" => (df' = df /\ df_columns' = df_columns)
            /\ analysis.loaded = "csv" => df' = csv_rows]_vars

\* the reliability of the Curiosity subscale has been computed from a table
\* in which a respondent answered Q2 with a value the adjustment changes
AnalysisIsReadOnlyWitness ==
    /\ analysis.pc = "generate_plots"
    /\ analysis.loaded = "csv"
    /\ results.set
    /\ "curiosity" \in DOMAIN results.reliability
    /\ \E i \in 1..Len(df) : df[i][2] = 1
    /\ \E i \in 1..Len(df) : df[i][2] = NA

=============================================================================
